---- MODULE Spec2Model ----
(***************************************************************************)
(* A model of the request-file parser of http-rest-file (src/parser.rs).   *)
(*                                                                         *)
(* Text is a sequence of one-character strings; a cursor is a 0-based      *)
(* offset into it, as Scanner's `cursor` is.  An Option is a sequence of   *)
(* length 0 (None) or 1 (Some).  Every parse function of parser.rs is an   *)
(* operator that takes the text and the cursor and returns a record with   *)
(* the new cursor; Parser::parse and Parser::parse_request are stepped     *)
(* through by the actions at the end of the module.                        *)
(***************************************************************************)
EXTENDS Integers, Sequences, FiniteSets, TLC

Chars(str) == [i \in 1..Len(str) |-> SubSeq(str, i, i)]

None == <<>>
Some(x) == <<x>>
IsSome(o) == Len(o) = 1
Unwrap(o) == o[1]

\* ---------------------------------------------------------------- constants
REQUEST_SEPARATOR == Chars("###")
META_COMMENT_SLASH == Chars("//")
META_COMMENT_TAG == Chars("#")
DEFAULT_MULTIPART_BOUNDARY == Chars("--boundary--")
\* the largest boundary length is_multipart_boundary_valid accepts
MaxBoundaryLen == 70

\* One character that is not ASCII: it takes two bytes in UTF-8.
NonAscii == "U+00E9"
ByteLen(s) == Len(s) + Cardinality({i \in 1..Len(s) : s[i] = NonAscii})

\* ------------------------------------------------------- Rust str operations
IsWhite(ch) == ch \in {" ", "\t", "\n", "\r"}

RECURSIVE TrimStart(_)
TrimStart(s) ==
    IF s # <<>> /\ IsWhite(s[1]) THEN TrimStart(Tail(s)) ELSE s

RECURSIVE TrimEnd(_)
TrimEnd(s) ==
    IF s # <<>> /\ IsWhite(s[Len(s)]) THEN TrimEnd(SubSeq(s, 1, Len(s) - 1)) ELSE s

Trim(s) == TrimEnd(TrimStart(s))

RECURSIVE TrimEndNewlines(_)
TrimEndNewlines(s) ==
    IF s # <<>> /\ s[Len(s)] = "\n" THEN TrimEndNewlines(SubSeq(s, 1, Len(s) - 1)) ELSE s

StartsWith(s, p) == Len(p) <= Len(s) /\ SubSeq(s, 1, Len(p)) = p
EndsWith(s, p) == Len(p) <= Len(s) /\ SubSeq(s, Len(s) - Len(p) + 1, Len(s)) = p
ContainsChar(s, ch) == \E i \in 1..Len(s) : s[i] = ch
ContainsStr(s, p) == \E i \in 0..(Len(s) - Len(p)) : SubSeq(s, i + 1, i + Len(p)) = p

\* str::split(ch): the pieces between the occurrences of ch (always at least one)
RECURSIVE SplitFrom(_, _, _, _)
SplitFrom(s, ch, i, piece) ==
    IF i > Len(s) THEN <<piece>>
    ELSE IF s[i] = ch THEN <<piece>> \o SplitFrom(s, ch, i + 1, <<>>)
    ELSE SplitFrom(s, ch, i + 1, Append(piece, s[i]))

Split(s, ch) == SplitFrom(s, ch, 1, <<>>)

\* [String]::join(sep)
RECURSIVE Join(_, _)
Join(parts, sep) ==
    IF parts = <<>> THEN <<>>
    ELSE IF Len(parts) = 1 THEN parts[1]
    ELSE parts[1] \o sep \o Join(Tail(parts), sep)

\* str::replace(from, to) for a non-empty `from`
RECURSIVE Replace(_, _, _)
Replace(s, from, to) ==
    IF s = <<>> THEN <<>>
    ELSE IF StartsWith(s, from) THEN to \o Replace(SubSeq(s, Len(from) + 1, Len(s)), from, to)
    ELSE <<s[1]>> \o Replace(Tail(s), from, to)

\* regex::escape: the characters the regex crate escapes with a backslash
IsMeta(ch) == ch \in {"\\", ".", "+", "*", "?", "(", ")", "|", "[", "]", "{", "}", "^", "$", "#", "&", "-", "~"}

RECURSIVE RegexEscape(_)
RegexEscape(s) ==
    IF s = <<>> THEN <<>>
    ELSE (IF IsMeta(s[1]) THEN <<"\\", s[1]>> ELSE <<s[1]>>) \o RegexEscape(Tail(s))

\* ------------------------------------------------------------------ Scanner
WS_CHARS == {" ", "\t"}

is_done(t, c) == c >= Len(t)

\* the offset of the first newline at or after the cursor, or the end of the text
NextNewline(t, c) ==
    LET newlines == {i \in c..(Len(t) - 1) : t[i + 1] = "\n"}
    IN  IF newlines = {} THEN Len(t)
        ELSE CHOOSE i \in newlines : \A j \in newlines : i <= j

peek_line(t, c) ==
    IF is_done(t, c) THEN None ELSE Some(SubSeq(t, c + 1, NextNewline(t, c)))

skip_to_next_line(t, c) ==
    LET n == NextNewline(t, c) IN IF n < Len(t) THEN n + 1 ELSE Len(t)

get_line_and_advance(t, c) ==
    [line |-> peek_line(t, c), cursor |-> skip_to_next_line(t, c)]

RECURSIVE skip_empty_lines(_, _)
skip_empty_lines(t, c) ==
    IF c < Len(t) /\ t[c + 1] = "\n" THEN skip_empty_lines(t, c + 1) ELSE c

RECURSIVE skip_ws(_, _)
skip_ws(t, c) ==
    IF c < Len(t) /\ t[c + 1] \in WS_CHARS THEN skip_ws(t, c + 1) ELSE c

RECURSIVE skip_empty_lines_and_ws(_, _)
skip_empty_lines_and_ws(t, c) ==
    IF c < Len(t) /\ (t[c + 1] = "\n" \/ t[c + 1] \in WS_CHARS)
    THEN skip_empty_lines_and_ws(t, c + 1)
    ELSE c

starts_at(t, c, s) == c + Len(s) <= Len(t) /\ SubSeq(t, c + 1, c + Len(s)) = s

match_str_forward(t, c, s) ==
    IF starts_at(t, c, s) THEN [matched |-> TRUE, cursor |-> c + Len(s)]
    ELSE [matched |-> FALSE, cursor |-> c]

take(t, c, ch) == match_str_forward(t, c, <<ch>>)

peek_n(t, c, n) ==
    IF c + n <= Len(t) THEN Some(SubSeq(t, c + 1, c + n)) ELSE None

\* seek_return('\n'): the text up to the next newline, consumed with the newline
seek_return(t, c) ==
    LET n == NextNewline(t, c)
    IN  IF n < Len(t)
        THEN [ok |-> TRUE, value |-> SubSeq(t, c + 1, n), cursor |-> n + 1]
        ELSE [ok |-> FALSE, value |-> <<>>, cursor |-> c]

get_from_to(t, from, to) == SubSeq(t, from + 1, to)

\* the start of the line the cursor is in
RECURSIVE LineStart(_, _)
LineStart(t, c) ==
    IF c = 0 \/ t[c] = "\n" THEN c ELSE LineStart(t, c - 1)

step_to_previous_line_start(t, c) ==
    LET ls == LineStart(t, c) IN IF ls = 0 THEN 0 ELSE LineStart(t, ls - 1)

get_prev_line(t, c) ==
    LET ls == LineStart(t, c)
    IN  IF ls = 0 THEN None ELSE Some(SubSeq(t, LineStart(t, ls - 1) + 1, ls - 1))

\* get_tokens: the maximal runs of non-whitespace characters
RECURSIVE TokensFrom(_, _, _)
TokensFrom(s, i, tok) ==
    IF i > Len(s) THEN (IF tok = <<>> THEN <<>> ELSE <<tok>>)
    ELSE IF IsWhite(s[i])
         THEN (IF tok = <<>> THEN <<>> ELSE <<tok>>) \o TokensFrom(s, i + 1, <<>>)
         ELSE TokensFrom(s, i + 1, Append(tok, s[i]))

get_tokens(s) == TokensFrom(s, 1, <<>>)

\* LineIterator::take_while_peek with the predicate of parse_request_line:
\* the lines from the cursor on that start with a whitespace character
RECURSIVE take_while_peek(_, _)
take_while_peek(t, c) ==
    LET l == peek_line(t, c)
    IN  IF IsSome(l) /\ Unwrap(l) # <<>> /\ Unwrap(l)[1] \in WS_CHARS
        THEN LET r == take_while_peek(t, skip_to_next_line(t, c))
             IN  [lines |-> <<Unwrap(l)>> \o r.lines, end |-> r.end]
        ELSE [lines |-> <<>>, end |-> c]

\* match_regex_forward("(.*)%}"): anchored at the cursor, `.` stops at a newline,
\* so the match is the rest of the line up to its last "%}"
LastCloseIn(line) ==
    LET ends == {i \in 1..(Len(line) - 1) : line[i] = "%" /\ line[i + 1] = "}"}
    IN  IF ends = {} THEN 0 ELSE CHOOSE i \in ends : \A j \in ends : j <= i

match_script_close(t, c) ==
    LET line == SubSeq(t, c + 1, NextNewline(t, c))
        k == LastCloseIn(line)
    IN  IF k = 0 THEN [matched |-> FALSE, capture |-> <<>>, cursor |-> c]
        ELSE [matched |-> TRUE, capture |-> SubSeq(line, 1, k - 1), cursor |-> c + k + 1]

\* ParseErrorDetails: the error kind, its payload, and the offsets
Diag(error, arg, start_pos, end_pos) ==
    [error |-> error, arg |-> arg, start_pos |-> start_pos, end_pos |-> end_pos]

NoDiag == Diag("", <<>>, None, None)

\* --------------------------------------------------------- model.rs values
Comment(value, kind) == [value |-> value, kind |-> kind]

\* RequestSettings::default() and RequestSettings::set_entry, as the tests
\* parse_pre_request_script_single_line and parse_meta_directives show them
DefaultSettings == [no_cookie_jar |-> None, no_redirect |-> None, no_log |-> None]

OrFalse(o) == IF IsSome(o) THEN o ELSE Some(FALSE)

set_entry(settings, entry) ==
    [no_cookie_jar |-> IF entry = "NoCookieJar" THEN Some(TRUE) ELSE OrFalse(settings.no_cookie_jar),
     no_redirect |-> IF entry = "NoRedirect" THEN Some(TRUE) ELSE OrFalse(settings.no_redirect),
     no_log |-> IF entry = "NoLog" THEN Some(TRUE) ELSE OrFalse(settings.no_log)]

\* WithDefault<T>
Defaulted == [tag |-> "Default", value |-> <<>>]
Explicit(v) == [tag |-> "Some", value |-> v]

\* RequestTarget::from
RequestTargetFrom(str) ==
    IF str = <<"*">> THEN [kind |-> "Asterisk", uri |-> <<>>]
    ELSE IF StartsWith(str, <<"/">>) THEN [kind |-> "RelativeOrigin", uri |-> str]
    ELSE [kind |-> "Absolute", uri |-> str]

\* HttpVersion::from_str: HTTP/<digits>.<digits>
Digits == {"0", "1", "2", "3", "4", "5", "6", "7", "8", "9"}
IsDigits(s) == s # <<>> /\ \A i \in 1..Len(s) : s[i] \in Digits

HttpVersionFromStr(str) ==
    LET body == SubSeq(str, 6, Len(str))
        nums == Split(body, ".")
    IN  IF StartsWith(str, Chars("HTTP/")) /\ Len(nums) = 2 /\ IsDigits(nums[1]) /\ IsDigits(nums[2])
        THEN [ok |-> TRUE, version |-> [major |-> nums[1], minor |-> nums[2]]]
        ELSE [ok |-> FALSE, version |-> [major |-> <<>>, minor |-> <<>>]]

\* --------------------------------------------------- directives and comments
parse_meta_name(rest) ==
    LET r1 == TrimStart(rest)
        r2 == TrimStart(SubSeq(r1, 6, Len(r1)))
    IN  IF StartsWith(r1, Chars("@name")) /\ StartsWith(r2, <<"=">>)
        THEN Some(Trim(Tail(r2)))
        ELSE None

SettingsEntryOf(str) ==
    IF str = Chars("@no-cookie-jar") THEN Some("NoCookieJar")
    ELSE IF str = Chars("@no-redirect") THEN Some("NoRedirect")
    ELSE IF str = Chars("@no-log") THEN Some("NoLog")
    ELSE None

\* kind "name": a NameEntry; "entry": a settings entry; "none": None
parse_meta_comment_line(t, c) ==
    LET c1 == skip_ws(t, c)
        pl == peek_line(t, c1)
        line == IF IsSome(pl) THEN Unwrap(pl) ELSE <<>>
        marker == IF StartsWith(line, META_COMMENT_SLASH) THEN 2
                  ELSE IF StartsWith(line, META_COMMENT_TAG) THEN 1
                  ELSE 0
        rest == SubSeq(line, marker + 1, Len(line))
        nm == parse_meta_name(rest)
        rest2 == SubSeq(rest, skip_ws(rest, 0) + 1, Len(rest))
        entry == SettingsEntryOf(Trim(rest2))
        none == [kind |-> "none", value |-> <<>>, cursor |-> c1]
    IN  IF ~IsSome(pl) \/ marker = 0 THEN none
        ELSE IF IsSome(nm)
        THEN IF Unwrap(nm) # <<>>
             THEN [kind |-> "name", value |-> Unwrap(nm), cursor |-> skip_to_next_line(t, c1)]
             ELSE [kind |-> "none", value |-> <<>>, cursor |-> skip_to_next_line(t, c1)]
        ELSE IF rest2 = <<>> THEN none
        ELSE IF IsSome(entry)
        THEN [kind |-> "entry", value |-> Unwrap(entry), cursor |-> skip_to_next_line(t, c1)]
        ELSE none

parse_comment_line(t, c, kind) ==
    LET c1 == skip_ws(t, c)
        sr == seek_return(t, c1)
    IN  IF sr.ok
        THEN [result |-> "comment", comment |-> Comment(sr.value, kind), err |-> NoDiag, cursor |-> sr.cursor]
        ELSE [result |-> "err", comment |-> Comment(<<>>, kind),
              err |-> Diag("MissingRequestTargetLine", <<>>, Some(sr.cursor), None), cursor |-> sr.cursor]

parse_comment(t, c) ==
    LET c1 == skip_ws(t, skip_empty_lines(t, c))
    IN  IF starts_at(t, c1, REQUEST_SEPARATOR) THEN parse_comment_line(t, c1 + 3, "RequestSeparator")
        ELSE IF starts_at(t, c1, META_COMMENT_SLASH) THEN parse_comment_line(t, c1 + 2, "DoubleSlash")
        ELSE IF starts_at(t, c1, META_COMMENT_TAG) THEN parse_comment_line(t, c1 + 1, "SingleTag")
        ELSE [result |-> "none", comment |-> Comment(<<>>, ""), err |-> NoDiag, cursor |-> c1]

\* ------------------------------------------------------------ script blocks
\* the loop of parse_pre_request_script and of parse_response_handler that
\* collects the lines of a {% ... %} block
RECURSIVE collect_script(_, _, _)
collect_script(t, c, lines) ==
    LET m == match_script_close(t, c)
    IN  IF m.matched THEN [found |-> TRUE, lines |-> Append(lines, m.capture), cursor |-> m.cursor]
        ELSE IF is_done(t, c) THEN [found |-> FALSE, lines |-> lines, cursor |-> c]
        ELSE collect_script(t, skip_to_next_line(t, c), Append(lines, Unwrap(peek_line(t, c))))

Script(kind, text) == [kind |-> kind, text |-> text]

parse_pre_request_script(t, c) ==
    LET tk == take(t, c, "<")
        start_pos == tk.cursor
        c1 == skip_ws(t, start_pos)
        open == match_str_forward(t, c1, Chars("{%"))
        la == get_line_and_advance(t, c1)
        blk == collect_script(t, open.cursor, <<>>)
    IN  IF ~tk.matched THEN [ok |-> TRUE, script |-> None, err |-> NoDiag, cursor |-> c]
        ELSE IF ~open.matched
        THEN IF ~IsSome(la.line)
             THEN [ok |-> FALSE, script |-> None, cursor |-> la.cursor,
                   err |-> Diag("MissingPreRequestScript", <<>>, Some(start_pos), Some(la.cursor))]
             ELSE [ok |-> TRUE, script |-> Some(Script("FromFilepath", Trim(Unwrap(la.line)))),
                   err |-> NoDiag, cursor |-> la.cursor]
        ELSE IF ~blk.found
        THEN [ok |-> FALSE, script |-> None, cursor |-> blk.cursor,
              err |-> Diag("MissingPreRequestScriptClose", <<>>, Some(start_pos), Some(blk.cursor))]
        ELSE [ok |-> TRUE, script |-> Some(Script("Script", Join(blk.lines, <<"\n">>))),
              err |-> NoDiag, cursor |-> skip_to_next_line(t, blk.cursor)]

\* ------------------------------------------------- placeholder substitution
WordChars == {"_"} \cup Digits \cup {Chars("abcdefghijklmnopqrstuvwxyzABCDEFGHIJKLMNOPQRSTUVWXYZ")[i] : i \in 1..52}
IsWord(ch) == ch \in WordChars

\* the end (exclusive, 1-based) of the longest run of word characters from i
RECURSIVE WordEnd(_, _)
WordEnd(s, i) ==
    IF i <= Len(s) /\ IsWord(s[i]) THEN WordEnd(s, i + 1) ELSE i

HasAt(s, i, p) == i + Len(p) - 1 <= Len(s) /\ SubSeq(s, i, i + Len(p) - 1) = p

\* VAR_SET matched at index i of s: request\.variables\.set."(\w+)", "(\w+)"
VarSetAt(s, i) ==
    LET head == Chars("request.variables.set")
        k1 == i + Len(head) + 2
        k2 == WordEnd(s, k1)
        v1 == k2 + 4
        v2 == WordEnd(s, v1)
        hit == /\ HasAt(s, i, head)
               /\ i + Len(head) <= Len(s) /\ s[i + Len(head)] # "\n"
               /\ HasAt(s, i + Len(head) + 1, <<"\"">>)
               /\ k2 > k1
               /\ HasAt(s, k2, Chars("\", \""))
               /\ v2 > v1
               /\ HasAt(s, v2, <<"\"">>)
    IN  IF hit THEN [matched |-> TRUE, key |-> SubSeq(s, k1, k2 - 1), value |-> SubSeq(s, v1, v2 - 1), next |-> v2 + 1]
        ELSE [matched |-> FALSE, key |-> <<>>, value |-> <<>>, next |-> i + 1]

KvHas(kv, k) == \E j \in 1..Len(kv) : kv[j].key = k
KvGet(kv, k) == kv[CHOOSE j \in 1..Len(kv) : kv[j].key = k].value

\* the map built from VAR_SET.captures_iter with kv.entry(k).or_insert(v)
RECURSIVE VarSets(_, _, _)
VarSets(s, i, kv) ==
    IF i > Len(s) THEN kv
    ELSE LET m == VarSetAt(s, i)
         IN  IF m.matched
             THEN VarSets(s, m.next, IF KvHas(kv, m.key) THEN kv ELSE Append(kv, [key |-> m.key, value |-> m.value]))
             ELSE VarSets(s, i + 1, kv)

\* HANDLE_BARS.captures_iter(&uri): the identifiers of the {{identifier}} placeholders
RECURSIVE HandleBars(_, _)
HandleBars(uri, i) ==
    IF i > Len(uri) THEN <<>>
    ELSE LET e == WordEnd(uri, i + 2)
         IN  IF HasAt(uri, i, Chars("{{")) /\ e > i + 2 /\ HasAt(uri, e, Chars("}}"))
             THEN <<SubSeq(uri, i + 2, e - 1)>> \o HandleBars(uri, e + 2)
             ELSE HandleBars(uri, i + 1)

RECURSIVE ApplyVars(_, _, _)
ApplyVars(new_uri, vars, kv) ==
    IF vars = <<>> THEN new_uri
    ELSE IF KvHas(kv, vars[1])
    THEN ApplyVars(Replace(Replace(Replace(new_uri, vars[1], KvGet(kv, vars[1])), <<"{">>, <<>>), <<"}">>, <<>>), Tail(vars), kv)
    ELSE ApplyVars(new_uri, Tail(vars), kv)

\* lines 201-244: the substitution parse_request applies to a parsed request line
substitute_variables(request_line, pre_request_script) ==
    LET script == IF IsSome(pre_request_script) THEN Unwrap(pre_request_script).text ELSE <<>>
        kv == VarSets(script, 1, <<>>)
    IN  IF IsSome(pre_request_script) /\ ContainsStr(script, Chars("request.variables.set"))
           /\ request_line.target.kind = "Absolute"
        THEN [request_line EXCEPT !.target.uri = ApplyVars(@, HandleBars(@, 1), kv)]
        ELSE request_line

\* the number of println! calls of lines 209-219: one per VAR_SET match
RECURSIVE CountVarSets(_, _)
CountVarSets(s, i) ==
    IF i > Len(s) THEN 0
    ELSE LET m == VarSetAt(s, i) IN IF m.matched THEN 1 + CountVarSets(s, m.next) ELSE CountVarSets(s, i + 1)

substitution_prints(pre_request_script) ==
    IF IsSome(pre_request_script) /\ ContainsStr(Unwrap(pre_request_script).text, Chars("request.variables.set"))
    THEN CountVarSets(Unwrap(pre_request_script).text, 1)
    ELSE 0

\* ------------------------------------------------------------- request line
TrimAll(lines) == [i \in 1..Len(lines) |-> Trim(lines[i])]

\* a fold that puts a space between the lines it joins
fold_lines_spaced(first, indented_lines) == first \o <<" ">> \o Join(TrimAll(indented_lines), <<" ">>)

\* lines 613-621: the indented lines, trimmed, are appended to the first line
fold_lines(first, indented_lines) == first \o Join(TrimAll(indented_lines), <<>>)

\* a one-token request line read as a GET
target_with_method(target_str) ==
    [target |-> RequestTargetFrom(target_str), method |-> Explicit(Chars("GET")), http_version |-> Defaulted]

\* lines 638-645: a request line of one token
target_only(target_str) ==
    [target |-> RequestTargetFrom(target_str), method |-> Defaulted, http_version |-> Defaulted]

\* a two-token request line read as target, then method
target_and_method(method, target_str) ==
    [target |-> RequestTargetFrom(method), method |-> Explicit(target_str), http_version |-> Defaulted]

\* lines 646-653: a request line of two tokens
method_and_target(method, target_str) ==
    [target |-> RequestTargetFrom(target_str), method |-> Explicit(method), http_version |-> Defaulted]

parse_request_line(t, c) ==
    LET la == get_line_and_advance(t, c)
        first == IF IsSome(la.line) THEN Unwrap(la.line) ELSE <<>>
        line_start == la.cursor
        ind == take_while_peek(t, line_start)
        line_end == ind.end
        line == fold_lines(first, ind.lines)
        tokens == get_tokens(line)
        n == Len(tokens)
        version == IF n >= 3 THEN HttpVersionFromStr(tokens[3]) ELSE HttpVersionFromStr(<<>>)
        missing == [ok |-> FALSE, request_line |-> None, errs |-> <<>>, cursor |-> line_end,
                    err |-> Diag("MissingRequestTargetLine", <<>>, Some(line_start), None)]
        ok(rl, errs) == [ok |-> TRUE, request_line |-> Some(rl), errs |-> errs, cursor |-> line_end, err |-> NoDiag]
    IN  IF n >= 2 /\ ContainsChar(tokens[1], ":") THEN missing
        ELSE IF n = 0 THEN missing
        ELSE IF n = 1
        THEN ok(target_only(tokens[1]), <<>>)
        ELSE IF n = 2
        THEN ok(method_and_target(tokens[1], tokens[2]), <<>>)
        ELSE IF n = 3
        THEN ok([target |-> RequestTargetFrom(tokens[2]), method |-> Explicit(tokens[1]),
                 http_version |-> IF version.ok THEN Explicit(version.version) ELSE Defaulted],
                IF version.ok THEN <<>>
                ELSE <<Diag("InvalidHttpVersion", tokens[3], Some(line_start), Some(line_start + n))>>)
        ELSE ok([target |-> RequestTargetFrom(tokens[2]), method |-> Explicit(tokens[1]),
                 http_version |-> IF version.ok THEN Explicit(version.version) ELSE Defaulted],
                <<Diag("TooManyElementsOnRequestLine", Join(SubSeq(tokens, 4, n), <<",">>), Some(line_start), Some(line_end))>>)

\* ------------------------------------------------------------------ headers
Header(key, value) == [key |-> key, value |-> value]

\* header_regex ^([^:]+):\s*(.+)\s* applied to one line
header_regex(line) ==
    LET colons == {i \in 1..Len(line) : line[i] = ":"}
        k == IF colons = {} THEN 0 ELSE CHOOSE i \in colons : \A j \in colons : i <= j
        rest == SubSeq(line, k + 1, Len(line))
        lead == TrimStart(rest)
    IN  IF k < 2 \/ rest = <<>> THEN [matched |-> FALSE, key |-> <<>>, value |-> <<>>]
        ELSE [matched |-> TRUE, key |-> SubSeq(line, 1, k - 1),
              value |-> IF lead # <<>> THEN lead ELSE <<rest[Len(rest)]>>]

RECURSIVE parse_headers_from(_, _, _)
parse_headers_from(t, c, headers) ==
    IF is_done(t, c) \/ t[c + 1] = "\n"
    THEN [ok |-> TRUE, headers |-> headers, err |-> NoDiag, cursor |-> c]
    ELSE LET la == get_line_and_advance(t, c)
             line == Unwrap(la.line)
             m == header_regex(line)
         IN  IF ~m.matched
             THEN [ok |-> FALSE, headers |-> headers, cursor |-> la.cursor,
                   err |-> Diag("InvalidHeaderField", line, Some(la.cursor), None)]
             ELSE parse_headers_from(t, la.cursor, Append(headers, Header(m.key, m.value)))

parse_headers(t, c) == parse_headers_from(t, c, <<>>)

\* --------------------------------------------------------------------- body
BodyNone == [kind |-> "None"]
BodyRaw(data) == [kind |-> "Raw", data |-> data]
BodyUrlEncoded(params) == [kind |-> "UrlEncoded", url_encoded_params |-> params]
BodyMultipart(boundary, parts) == [kind |-> "Multipart", boundary |-> boundary, parts |-> parts]
DataRaw(text) == [kind |-> "Raw", text |-> text]
DataFromFilepath(path) == [kind |-> "FromFilepath", text |-> path]

\* a pair whose key is the whole piece
whole_piece_param(key_val) == [key |-> key_val, value |-> <<>>]

\* lines 895-900: the piece is split on "="; key and value are its first two parts
UrlEncodedParam(key_val) ==
    LET split == Split(key_val, "=")
    IN  [key |-> split[1], value |-> IF Len(split) >= 2 THEN split[2] ELSE <<>>]

parse_body_urlencoded(t, c) ==
    LET pl == peek_line(t, c)
        line == Trim(Unwrap(pl))
        pieces == Split(line, "&")
    IN  IF ~IsSome(pl) \/ StartsWith(line, REQUEST_SEPARATOR)
        THEN [body |-> BodyUrlEncoded(<<>>), cursor |-> c]
        ELSE [body |-> BodyUrlEncoded([i \in 1..Len(pieces) |-> UrlEncodedParam(pieces[i])]),
              cursor |-> skip_to_next_line(t, c)]

PrevLineIsBlank(t, c) ==
    LET prev == get_prev_line(t, c) IN IsSome(prev) /\ Trim(Unwrap(prev)) = <<>>

\* the loop of parse_raw_body: the cursor it leaves the scanner at
RECURSIVE raw_body_scan(_, _)
raw_body_scan(t, c) ==
    LET pl == peek_line(t, c)
    IN  IF ~IsSome(pl) THEN c
        ELSE IF StartsWith(Unwrap(pl), REQUEST_SEPARATOR) THEN c
        ELSE IF StartsWith(Unwrap(pl), <<">">>)
        THEN (IF PrevLineIsBlank(t, c) THEN step_to_previous_line_start(t, c) ELSE c)
        ELSE IF StartsWith(Unwrap(pl), Chars(">>"))
        THEN (IF PrevLineIsBlank(t, c) THEN step_to_previous_line_start(t, c) ELSE c)
        ELSE raw_body_scan(t, skip_to_next_line(t, c))

parse_raw_body(t, c) ==
    LET start_pos == c
        stop == raw_body_scan(t, c)
        end_pos == IF start_pos > stop THEN start_pos ELSE stop
        body_str == get_from_to(t, start_pos, end_pos)
    IN  IF is_done(t, c) THEN [body |-> BodyNone, cursor |-> c]
        ELSE IF StartsWith(Trim(body_str), <<"<">>)
        THEN [body |-> BodyRaw(DataFromFilepath(Trim(Split(body_str, "<")[2]))), cursor |-> stop]
        ELSE IF body_str # <<>>
        THEN [body |-> BodyRaw(DataRaw(TrimEndNewlines(body_str))), cursor |-> stop]
        ELSE [body |-> BodyNone, cursor |-> stop]

\* ---------------------------------------------------------------- multipart
\* an alphabet that has the space too
IsBoundaryCharOrSpace(ch) ==
    ch \in (WordChars \cup {" ", "'", "(", ")", ".", ",", "-", "+", "/", ":", "?", "="})

\* lines 1202-1217: the bytes a boundary may hold
IsBoundaryChar(ch) ==
    ch \in (WordChars \cup {"'", "(", ")", ".", ",", "-", "+", "/", ":", "?", "="})

is_multipart_boundary_valid(boundary) ==
    LET bad == {i \in 1..Len(boundary) : ~IsBoundaryChar(boundary[i])}
        first == CHOOSE i \in bad : \A j \in bad : i <= j
    IN  IF ~(ByteLen(boundary) >= 1 /\ ByteLen(boundary) <= MaxBoundaryLen)
        THEN [ok |-> FALSE, abort |-> FALSE, err |-> Diag("InvalidMultipartBoundaryLength", <<>>, None, None)]
        ELSE IF bad = {} THEN [ok |-> TRUE, abort |-> FALSE, err |-> NoDiag]
        ELSE IF boundary[first] = NonAscii
        THEN [ok |-> FALSE, abort |-> TRUE, err |-> NoDiag]
        ELSE [ok |-> FALSE, abort |-> FALSE,
              err |-> Diag("InvalidMultipartBoundaryCharacter", <<boundary[first]>>, None, None)]

\* value[1..(value.len() - 1)] of a value that starts and ends with a quote:
\* the slice 1..0 of a value that is one quote is out of range
Unquote(value) ==
    IF StartsWith(value, <<"\"">>) /\ EndsWith(value, <<"\"">>)
    THEN IF Len(value) < 2 THEN [abort |-> TRUE, value |-> value]
         ELSE [abort |-> FALSE, value |-> SubSeq(value, 2, Len(value) - 1)]
    ELSE [abort |-> FALSE, value |-> value]

DispositionField(name, filename, filename_star) ==
    [name |-> name, filename |-> filename, filename_star |-> filename_star]

\* lines 1085-1105: the parameters after the disposition type
RECURSIVE disposition_params(_, _)
disposition_params(entries, field) ==
    IF entries = <<>> THEN [status |-> "ok", field |-> field, bad |-> <<>>]
    ELSE LET current == entries[1]
             raw == Split(current, "=")
             kv == [i \in 1..Len(raw) |-> Trim(raw[i])]
             uq == Unquote(kv[2])
             key == kv[1]
         IN  IF Len(kv) # 2 THEN [status |-> "malformed", field |-> field, bad |-> current]
             ELSE IF uq.abort THEN [status |-> "abort", field |-> field, bad |-> current]
             ELSE disposition_params(Tail(entries),
                    IF key = Chars("filename") THEN [field EXCEPT !.filename = Some(uq.value)]
                    ELSE IF key = Chars("filename*") THEN [field EXCEPT !.filename_star = Some(uq.value)]
                    ELSE IF key = Chars("name") THEN [field EXCEPT !.name = uq.value]
                    ELSE field)

\* lines 1159-1186: the text of a part, up to a boundary line
RECURSIVE part_text(_, _, _, _, _)
part_text(t, c, boundary_line, multipart_end_line, text) ==
    LET pl == peek_line(t, c)
        c2 == skip_to_next_line(t, c)
        next == peek_line(t, c2)
        more == ~(IsSome(next) /\ StartsWith(Unwrap(next), boundary_line))
    IN  IF ~IsSome(pl) THEN [ok |-> FALSE, text |-> text, cursor |-> c]
        ELSE IF Unwrap(pl) = boundary_line \/ Unwrap(pl) = multipart_end_line
        THEN [ok |-> TRUE, text |-> text, cursor |-> c]
        ELSE part_text(t, c2, boundary_line, multipart_end_line,
                       text \o Unwrap(pl) \o (IF more THEN <<"\n">> ELSE <<>>))

HeaderToString(h) == h.key \o Chars(": ") \o h.value
HeaderStrings(hs) == [i \in 1..Len(hs) |-> HeaderToString(hs[i])]

Multipart(disposition, headers, data) ==
    [disposition |-> disposition, headers |-> headers, data |-> data]

NoPart == Multipart(DispositionField(<<>>, None, None), <<>>, DataRaw(<<>>))

\* errs: what the part pushes to parse_errs; err: the error it returns
parse_multipart_part(t, c, boundary) ==
    LET boundary_line == Chars("--") \o boundary
        multipart_end_line == Chars("--") \o boundary \o Chars("--")
        first_boundary == match_str_forward(t, c, boundary_line)
        start_pos == skip_to_next_line(t, first_boundary.cursor)
        hs == parse_headers(t, start_pos)
        end_pos == hs.cursor
        fail(e, cur, errs) == [ok |-> FALSE, abort |-> FALSE, part |-> NoPart, err |-> e, errs |-> errs, cursor |-> cur]
        disposition_part == hs.headers[1]
        part_headers == Tail(hs.headers)
        parts == Split(disposition_part.value, ";")
        disposition_type == Trim(parts[1])
        dp == disposition_params(Tail(parts), DispositionField(<<>>, None, None))
        field == dp.field
        errs == IF field.name = <<>>
                THEN <<Diag("SingleMultipartNameMissing",
                            <<"[">> \o Join(HeaderStrings(part_headers), Chars(", ")) \o <<"]">>,
                            Some(start_pos), Some(end_pos))>>
                ELSE <<>>
        empty_line == match_str_forward(t, end_pos, <<"\n">>)
        pl == peek_line(t, empty_line.cursor)
        la == get_line_and_advance(t, empty_line.cursor)
        file_path == Trim(Tail(Trim(Unwrap(la.line))))
        txt == part_text(t, empty_line.cursor, boundary_line, multipart_end_line, <<>>)
        ended == Diag("MultipartShouldBeEndedWithBoundary", multipart_end_line, None, None)
    IN  IF ~hs.ok
        THEN fail(Diag("InvalidSingleMultipartHeaders", hs.err.arg, Some(hs.cursor), None), hs.cursor, <<>>)
        ELSE IF hs.headers = <<>>
        THEN fail(Diag("MissingSingleMultipartContentDispositionHeader", <<>>, Some(start_pos), Some(end_pos)), end_pos, <<>>)
        ELSE IF disposition_part.key # Chars("Content-Disposition")
        THEN fail(Diag("WrongMultipartContentDispositionHeader", disposition_part.key, Some(start_pos), Some(end_pos)), end_pos, <<>>)
        ELSE IF disposition_type # Chars("form-data")
        THEN fail(Diag("InvalidMultipartContentDispositionFormData", disposition_type, Some(start_pos), Some(end_pos)), end_pos, <<>>)
        ELSE IF dp.status = "abort"
        THEN [ok |-> FALSE, abort |-> TRUE, part |-> NoPart, err |-> NoDiag, errs |-> <<>>, cursor |-> end_pos]
        ELSE IF dp.status = "malformed"
        THEN fail(Diag("MalformedContentDispositionEntries", dp.bad, None, None), end_pos, <<>>)
        ELSE IF ~empty_line.matched
        THEN fail(Diag("SingleMultipartMissingEmptyLine", <<>>, Some(end_pos), None), end_pos, errs)
        ELSE IF ~IsSome(pl)
        THEN fail(ended, empty_line.cursor, errs)
        ELSE IF StartsWith(Unwrap(pl), <<"<">>)
        THEN [ok |-> TRUE, abort |-> FALSE, err |-> NoDiag, errs |-> errs, cursor |-> la.cursor,
              part |-> Multipart(field, part_headers, DataFromFilepath(file_path))]
        ELSE IF ~txt.ok
        THEN fail(ended, txt.cursor, errs)
        ELSE [ok |-> TRUE, abort |-> FALSE, err |-> NoDiag, errs |-> errs, cursor |-> txt.cursor,
              part |-> Multipart(field, part_headers, DataRaw(txt.text))]

\* a push at the front of the parts
push_part_front(parts, part) == <<part>> \o parts

\* line 992: parts.push(multipart)
push_part(parts, part) == Append(parts, part)

\* the loop of parse_multipart_body; the error of a part that fails goes to the
\* local `errors`, which nothing reads, and ends the loop
RECURSIVE multipart_parts(_, _, _, _, _)

\* lines 987-1014: what the loop does with the part p that was parsed
after_part(t, boundary, parts, errs, p) ==
    LET errs2 == errs \o p.errs
        parts2 == push_part(parts, p.part)
        end_boundary == RegexEscape(Chars("--") \o boundary \o Chars("--"))
        next_boundary == Chars("--") \o boundary
        at_end == match_str_forward(t, p.cursor, end_boundary)
        at_next == match_str_forward(t, p.cursor, next_boundary)
        done(ps, cur) == [ok |-> TRUE, abort |-> FALSE, body |-> BodyMultipart(boundary, ps),
                          err |-> NoDiag, errs |-> errs2, cursor |-> cur]
    IN  IF p.abort
        THEN [ok |-> FALSE, abort |-> TRUE, body |-> BodyNone, err |-> NoDiag, errs |-> errs2, cursor |-> p.cursor]
        ELSE IF ~p.ok THEN done(parts, p.cursor)
        ELSE IF is_done(t, p.cursor) THEN done(parts2, p.cursor)
        ELSE IF at_end.matched THEN done(parts2, at_end.cursor)
        ELSE IF ~at_next.matched
        THEN [ok |-> FALSE, abort |-> FALSE, body |-> BodyNone, errs |-> errs2, cursor |-> p.cursor,
              err |-> Diag("MissingMultipartBoundary", next_boundary, Some(p.cursor), None)]
        ELSE multipart_parts(t, at_next.cursor, boundary, parts2, errs2)

multipart_parts(t, c, boundary, parts, errs) ==
    after_part(t, boundary, parts, errs, parse_multipart_part(t, c, boundary))

parse_multipart_body(t, c, boundary) ==
    multipart_parts(t, skip_empty_lines(t, c), boundary, <<>>, <<>>)

\* boundary_regex multipart/form-data\s*(;\s*boundary\s*=\s*(.+))? : its group 2
boundary_match(content_type) ==
    LET r1 == TrimStart(SubSeq(content_type, Len(Chars("multipart/form-data")) + 1, Len(content_type)))
        r2 == TrimStart(Tail(r1))
        r3 == TrimStart(SubSeq(r2, Len(Chars("boundary")) + 1, Len(r2)))
        r4 == Tail(r3)
    IN  IF StartsWith(r1, <<";">>) /\ StartsWith(r2, Chars("boundary")) /\ StartsWith(r3, <<"=">>) /\ r4 # <<>>
        THEN Some(IF TrimStart(r4) # <<>> THEN TrimStart(r4) ELSE <<r4[Len(r4)]>>)
        ELSE None

\* lines 876-882: the body parse_multipart_body returned, or its error and no body
multipart_or_none(errs, mb) ==
    IF mb.abort
    THEN [abort |-> TRUE, body |-> None, errs |-> errs \o mb.errs, cursor |-> mb.cursor]
    ELSE IF mb.ok
    THEN [abort |-> FALSE, body |-> Some(mb.body), errs |-> errs \o mb.errs, cursor |-> mb.cursor]
    ELSE [abort |-> FALSE, body |-> None, errs |-> errs \o mb.errs \o <<mb.err>>, cursor |-> mb.cursor]

parse_content_type_multipart_form_data(t, c, content_type) ==
    LET bm == boundary_match(content_type)
        missing == IF IsSome(bm) THEN <<>>
                   ELSE <<Diag("MissingMultipartHeaderBoundaryDefinition", DEFAULT_MULTIPART_BOUNDARY, Some(c), None)>>
        uq == Unquote(IF IsSome(bm) THEN Unwrap(bm) ELSE DEFAULT_MULTIPART_BOUNDARY)
        boundary == uq.value
        valid == is_multipart_boundary_valid(boundary)
        errs1 == missing \o (IF valid.ok THEN <<>> ELSE <<valid.err>>)
    IN  IF uq.abort \/ valid.abort
        THEN [abort |-> TRUE, body |-> None, errs |-> missing, cursor |-> c]
        ELSE multipart_or_none(errs1, parse_multipart_body(t, c, boundary))

\* the raw body as parsed, whatever the headers
raw_as_parsed(content_type, body) == body

\* lines 817-824: with a Content-Type, an empty body is an empty Raw body
raw_or_empty(content_type, body) ==
    IF IsSome(content_type) /\ body = BodyNone THEN BodyRaw(DataRaw(<<>>)) ELSE body

ContentTypeOf(headers) ==
    LET hits == {i \in 1..Len(headers) : headers[i].key = Chars("Content-Type")}
    IN  IF hits = {} THEN None ELSE Some(headers[CHOOSE i \in hits : \A j \in hits : i <= j].value)

\* lines 809-811: unwrap_or(RequestBody::None)
body_or_none(mp) == [mp EXCEPT !.body = IF IsSome(@) THEN Unwrap(@) ELSE BodyNone]

\* lines 830-832: Ok(body), or Err((body, parse_errs)) with the diagnostics
Parsed(r) == [abort |-> FALSE, body |-> r.body, errs |-> <<>>, cursor |-> r.cursor]

parse_body(t, c, headers) ==
    LET content_type == ContentTypeOf(headers)
        ct == IF IsSome(content_type) THEN Unwrap(content_type) ELSE <<>>
    IN  IF IsSome(content_type) /\ StartsWith(ct, Chars("multipart/form-data"))
        THEN body_or_none(parse_content_type_multipart_form_data(t, c, ct))
        ELSE IF IsSome(content_type) /\ ct = Chars("application/x-www-form-urlencoded")
        THEN Parsed(parse_body_urlencoded(t, c))
        ELSE Parsed([parse_raw_body(t, c) EXCEPT !.body = raw_or_empty(content_type, @)])

\* ------------------------------------------- response handler and redirect
parse_response_handler(t, c) ==
    LET c1 == skip_ws(t, skip_empty_lines(t, c))
        next_two == peek_n(t, c1, 2)
        c2 == c1 + 1
        start_pos == skip_empty_lines(t, skip_ws(t, c2))
        open == match_str_forward(t, start_pos, Chars("{%"))
        blk == collect_script(t, open.cursor, <<>>)
        path == get_line_and_advance(t, start_pos)
    IN  IF ~IsSome(next_two) \/ Unwrap(next_two)[1] # ">" \/ Unwrap(next_two)[2] = ">"
        THEN [ok |-> TRUE, handler |-> None, err |-> NoDiag, cursor |-> c1]
        ELSE IF open.matched
        THEN IF ~blk.found
             THEN [ok |-> FALSE, handler |-> None, cursor |-> blk.cursor,
                   err |-> Diag("MissingResponseHandlerClose", <<>>, Some(start_pos), Some(blk.cursor))]
             ELSE [ok |-> TRUE, handler |-> Some(Script("Script", Join(blk.lines, <<"\n">>))),
                   err |-> NoDiag, cursor |-> skip_to_next_line(t, blk.cursor)]
        ELSE IF ~IsSome(path.line) \/ Unwrap(path.line) = <<>>
        THEN [ok |-> FALSE, handler |-> None, cursor |-> path.cursor,
              err |-> Diag("MissingResponseHandlerClose", <<>>, Some(path.cursor), None)]
        ELSE [ok |-> TRUE, handler |-> Some(Script("FromFilepath", Trim(Unwrap(path.line)))),
              err |-> NoDiag, cursor |-> path.cursor]

SaveResponse(kind, path) == [kind |-> kind, path |-> path]

\* a redirect parser that takes the ! marker as part of the path
redirect_never_overwrites(t, c) ==
    LET start_pos == skip_empty_lines(t, c)
        arrows == match_str_forward(t, start_pos, Chars(">>"))
        path == get_line_and_advance(t, arrows.cursor)
    IN  IF ~arrows.matched THEN [ok |-> TRUE, save |-> None, err |-> NoDiag, cursor |-> start_pos]
        ELSE IF ~IsSome(path.line)
        THEN [ok |-> FALSE, save |-> None, cursor |-> path.cursor,
              err |-> Diag("MissingResponseOutputPath", <<>>, Some(start_pos), Some(path.cursor))]
        ELSE [ok |-> TRUE, err |-> NoDiag, cursor |-> path.cursor,
              save |-> Some(SaveResponse("NewFileIfExists", Trim(Unwrap(path.line))))]

\* lines 1301-1333
parse_redirect(t, c) ==
    LET start_pos == skip_empty_lines(t, c)
        arrows == match_str_forward(t, start_pos, Chars(">>"))
        bang == take(t, arrows.cursor, "!")
        path == get_line_and_advance(t, bang.cursor)
    IN  IF ~arrows.matched THEN [ok |-> TRUE, save |-> None, err |-> NoDiag, cursor |-> start_pos]
        ELSE IF ~IsSome(path.line)
        THEN [ok |-> FALSE, save |-> None, cursor |-> path.cursor,
              err |-> Diag("MissingResponseOutputPath", <<>>, Some(start_pos), Some(path.cursor))]
        ELSE [ok |-> TRUE, err |-> NoDiag, cursor |-> path.cursor,
              save |-> Some(SaveResponse(IF bang.matched THEN "RewriteFile" ELSE "NewFileIfExists", Trim(Unwrap(path.line))))]

\* ------------------------------------------- Parser::parse, Parser::parse_request
\* A parser state: the position in parse / parse_request (pc), the scanner's
\* cursor, the locals of parse_request, and what parse has collected.
PartialRequest(s, pre_request_script, request_line, headers, body, response_handler, save_response) ==
    [name |-> s.name, comments |-> s.comments, settings |-> s.settings,
     pre_request_script |-> pre_request_script, request_line |-> request_line,
     headers |-> headers, body |-> body,
     response_handler |-> response_handler, save_response |-> save_response]

Request(s, request_line, headers, body, response_handler, save_response) ==
    [name |-> s.name, comments |-> s.comments, settings |-> s.settings,
     pre_request_script |-> s.pre_request_script, request_line |-> request_line,
     headers |-> headers, body |-> body,
     response_handler |-> response_handler, save_response |-> save_response]

\* parse_request returns Ok(request): lines 73-75
ReturnOk(s, request) == [s EXCEPT !.requests = Append(@, request), !.pc = "resync"]

\* parse_request returns Err(ErrorWithPartial): lines 76-78
ReturnErr(s, partial) ==
    [s EXCEPT !.errs = Append(@, [partial_request |-> partial, details |-> s.parse_errs]), !.pc = "resync"]

\* lines 104-107: parse returns, after printing the errors when asked to
parse_return(pe, s) ==
    [s EXCEPT !.pc = "done", !.console = @ + (IF s.errs # <<>> /\ pe THEN 1 ELSE 0)]

\* a check that lets the defaulted boundary and the empty part name pass
only_fatal_errors(parse_errs) ==
    \E i \in 1..Len(parse_errs) :
        parse_errs[i].error \notin {"MissingMultipartHeaderBoundaryDefinition", "SingleMultipartNameMissing"}

\* line 367: any diagnostic makes the request a failure
has_errors(parse_errs) == parse_errs # <<>>

\* lines 66-72 and 113-119: the top of the driver loop and the start of parse_request
parse_loop(t, pe, s) ==
    LET c1 == skip_empty_lines_and_ws(t, s.cursor)
    IN  IF is_done(t, c1) THEN parse_return(pe, [s EXCEPT !.cursor = c1])
        ELSE [s EXCEPT !.pc = "directives", !.cursor = skip_empty_lines(t, c1),
                       !.name = None, !.comments = <<>>, !.parse_errs = <<>>,
                       !.settings = DefaultSettings, !.pre_request_script = None,
                       !.request_line = None, !.headers = None, !.body = None,
                       !.response_handler = None, !.save_response = None]

\* lines 121-158: one iteration of the directive loop
directive_loop(t, s) ==
    LET prs == parse_pre_request_script(t, s.cursor)
        m == parse_meta_comment_line(t, s.cursor)
        cm == parse_comment(t, m.cursor)
    IN  IF ~is_done(t, s.cursor) /\ t[s.cursor + 1] = "<"
        THEN [s EXCEPT !.cursor = prs.cursor, !.pre_request_script = IF prs.ok THEN prs.script ELSE @]
        ELSE IF m.kind = "name" THEN [s EXCEPT !.cursor = m.cursor, !.name = Some(m.value)]
        ELSE IF m.kind = "entry" THEN [s EXCEPT !.cursor = m.cursor, !.settings = set_entry(@, m.value)]
        ELSE IF cm.result = "comment" THEN [s EXCEPT !.cursor = cm.cursor, !.comments = Append(@, cm.comment)]
        ELSE IF cm.result = "none" THEN [s EXCEPT !.cursor = cm.cursor, !.pc = "name"]
        ELSE [s EXCEPT !.cursor = cm.cursor, !.pc = "name", !.parse_errs = Append(@, cm.err)]

\* a resolution that removes the first ### comment even when @name is set
separator_always_removed(name, comments) ==
    LET seps == {i \in 1..Len(comments) : comments[i].kind = "RequestSeparator"}
        position == CHOOSE i \in seps : \A j \in seps : i <= j
        comment == Trim(comments[position].value)
    IN  IF seps = {} THEN [name |-> name, comments |-> comments]
        ELSE [name |-> IF IsSome(name) THEN name ELSE IF comment # <<>> THEN Some(comment) ELSE None,
              comments |-> SubSeq(comments, 1, position - 1) \o SubSeq(comments, position + 1, Len(comments))]

\* lines 186-196: without a @name, the first ### comment is removed and names the request
separator_name(name, comments) ==
    LET seps == {i \in 1..Len(comments) : comments[i].kind = "RequestSeparator"}
        position == CHOOSE i \in seps : \A j \in seps : i <= j
        comment == Trim(comments[position].value)
    IN  IF IsSome(name) \/ seps = {} THEN [name |-> name, comments |-> comments]
        ELSE [name |-> IF comment # <<>> THEN Some(comment) ELSE None,
              comments |-> SubSeq(comments, 1, position - 1) \o SubSeq(comments, position + 1, Len(comments))]

\* a resolution that names the block from its ### comment before it tests for the end of input
name_before_end_test(t, s) ==
    LET missing == Diag("MissingRequestTargetLine", <<>>, Some(s.cursor), None)
        nc == separator_name(s.name, s.comments)
        named == [s EXCEPT !.name = nc.name, !.comments = nc.comments]
        failed == [named EXCEPT !.parse_errs = Append(@, missing)]
    IN  IF is_done(t, s.cursor)
        THEN ReturnErr(failed, PartialRequest(failed, s.pre_request_script, None, None, None, None, None))
        ELSE [named EXCEPT !.pc = "request_line"]

\* lines 160-196: a block of comments alone is an error; else the name is resolved
name_resolution(t, s) ==
    LET missing == Diag("MissingRequestTargetLine", <<>>, Some(s.cursor), None)
        failed == [s EXCEPT !.parse_errs = Append(@, missing)]
        nc == separator_name(s.name, s.comments)
    IN  IF is_done(t, s.cursor)
        THEN ReturnErr(failed, PartialRequest(failed, s.pre_request_script, None, None, None, None, None))
        ELSE [s EXCEPT !.name = nc.name, !.comments = nc.comments, !.pc = "request_line"]

\* a request line stage that forgets the diagnostic of a missing request line
request_line_error_dropped(t, s) ==
    LET r == parse_request_line(t, s.cursor)
    IN  IF r.ok
        THEN [s EXCEPT !.cursor = r.cursor, !.pc = "end_check",
                       !.parse_errs = @ \o r.errs,
                       !.request_line = Some(substitute_variables(Unwrap(r.request_line), s.pre_request_script)),
                       !.console = @ + substitution_prints(s.pre_request_script)]
        ELSE [s EXCEPT !.cursor = r.cursor, !.pc = "end_check", !.request_line = None]

\* lines 198-251
request_line_stage(t, s) ==
    LET r == parse_request_line(t, s.cursor)
    IN  IF r.ok
        THEN [s EXCEPT !.cursor = r.cursor, !.pc = "end_check",
                       !.parse_errs = @ \o r.errs,
                       !.request_line = Some(substitute_variables(Unwrap(r.request_line), s.pre_request_script)),
                       !.console = @ + substitution_prints(s.pre_request_script)]
        ELSE [s EXCEPT !.cursor = r.cursor, !.pc = "end_check",
                       !.parse_errs = Append(@, r.err), !.request_line = None]

\* lines 272-285: the partial returned when the request line is missing and a
\* separator line follows
partial_at_separator(s) == PartialRequest(s, None, None, None, None, None, None)

\* lines 254-288: the request ends here when the next line is a separator line
end_of_request(t, s) ==
    LET pl == peek_line(t, s.cursor)
    IN  IF IsSome(pl) /\ StartsWith(Trim(Unwrap(pl)), REQUEST_SEPARATOR)
        THEN IF IsSome(s.request_line)
             THEN ReturnOk(s, Request(s, Unwrap(s.request_line), <<>>, BodyNone, None, None))
             ELSE ReturnErr(s, partial_at_separator(s))
        ELSE [s EXCEPT !.pc = "headers"]

\* lines 290-311
headers_stage(t, s) ==
    LET r == parse_headers(t, s.cursor)
        failed == [s EXCEPT !.cursor = r.cursor, !.parse_errs = Append(@, r.err)]
    IN  IF r.ok
        THEN [s EXCEPT !.cursor = skip_empty_lines(t, r.cursor), !.headers = Some(r.headers), !.pc = "body"]
        ELSE ReturnErr(failed, PartialRequest(failed, s.pre_request_script, s.request_line, None, None, None, None))

\* lines 313-320: the body and its diagnostics are kept; a panic inside
\* parse_body ends parse without a result
body_result(s, r) ==
    IF r.abort THEN [s EXCEPT !.pc = "aborted", !.cursor = r.cursor]
    ELSE [s EXCEPT !.cursor = r.cursor, !.body = Some(r.body),
                   !.parse_errs = @ \o r.errs, !.pc = "response_handler"]

body_stage(t, s) == body_result(s, parse_body(t, s.cursor, Unwrap(s.headers)))

\* a handler stage that returns the failure as soon as the body left diagnostics
handler_unless_diagnosed(t, s, r) ==
    LET failed == [s EXCEPT !.cursor = r.cursor, !.parse_errs = Append(@, r.err)]
    IN  IF has_errors(s.parse_errs)
        THEN ReturnErr(s, PartialRequest(s, s.pre_request_script, s.request_line, s.headers, s.body, None, None))
        ELSE IF r.ok
        THEN [s EXCEPT !.cursor = skip_empty_lines(t, r.cursor), !.response_handler = r.handler, !.pc = "redirect"]
        ELSE ReturnErr(failed, PartialRequest(failed, s.pre_request_script, s.request_line, s.headers, s.body, None, None))

\* lines 322-343: the handler is kept, or its error ends the request
handler_result(t, s, r) ==
    LET failed == [s EXCEPT !.cursor = r.cursor, !.parse_errs = Append(@, r.err)]
    IN  IF r.ok
        THEN [s EXCEPT !.cursor = skip_empty_lines(t, r.cursor), !.response_handler = r.handler, !.pc = "redirect"]
        ELSE ReturnErr(failed, PartialRequest(failed, s.pre_request_script, s.request_line, s.headers, s.body, None, None))

response_handler_stage(t, s) == handler_result(t, s, parse_response_handler(t, s.cursor))

\* lines 345-365
redirect_stage(t, s) ==
    LET r == parse_redirect(t, s.cursor)
        failed == [s EXCEPT !.cursor = r.cursor, !.parse_errs = Append(@, r.err)]
    IN  IF r.ok
        THEN [s EXCEPT !.cursor = skip_empty_lines(t, r.cursor), !.save_response = r.save, !.pc = "finish"]
        ELSE ReturnErr(failed, PartialRequest(failed, s.pre_request_script, s.request_line, s.headers, s.body, s.response_handler, None))

\* lines 397-409: without a name, the first comment without '@' names the request
comment_name(request) ==
    LET plain == {i \in 1..Len(request.comments) : ~ContainsChar(request.comments[i].value, "@")}
        name_pos == CHOOSE i \in plain : \A j \in plain : i <= j
    IN  IF ~IsSome(request.name) /\ plain # {}
        THEN [request EXCEPT !.name = Some(request.comments[name_pos].value),
                             !.comments = SubSeq(@, 1, name_pos - 1) \o SubSeq(@, name_pos + 1, Len(@))]
        ELSE request

\* lines 367-410
finish_request(t, s) ==
    IF has_errors(s.parse_errs)
    THEN ReturnErr(s, PartialRequest(s, s.pre_request_script, s.request_line, s.headers, s.body, s.response_handler, s.save_response))
    ELSE ReturnOk(s, comment_name(Request(s, Unwrap(s.request_line), Unwrap(s.headers), Unwrap(s.body), s.response_handler, s.save_response)))

\* lines 88-94: the cursor moves to the next line that starts with the separator
RECURSIVE next_separator(_, _)
next_separator(t, c) ==
    LET pl == peek_line(t, c)
    IN  IF ~IsSome(pl) \/ StartsWith(TrimStart(Unwrap(pl)), REQUEST_SEPARATOR) THEN c
        ELSE next_separator(t, skip_to_next_line(t, c))

\* a driver that returns after the first request
resync_returns(t, pe, s) == parse_return(pe, s)

\* lines 80-101: after a request, the driver moves to the next separator line
resync(t, pe, s) ==
    LET c1 == skip_ws(t, skip_empty_lines(t, s.cursor))
        c2 == next_separator(t, c1)
        c3 == skip_ws(t, skip_empty_lines(t, c2))
    IN  IF is_done(t, c1) THEN parse_return(pe, [s EXCEPT !.cursor = c1])
        ELSE IF is_done(t, c3) THEN parse_return(pe, [s EXCEPT !.cursor = c3])
        ELSE [s EXCEPT !.cursor = c3, !.pc = "parse_loop"]

\* the parser state parse starts in
StartState ==
    [pc |-> "parse_loop", cursor |-> 0, name |-> None, comments |-> <<>>,
     settings |-> DefaultSettings, pre_request_script |-> None, request_line |-> None,
     headers |-> None, body |-> None, response_handler |-> None, save_response |-> None,
     parse_errs |-> <<>>, requests |-> <<>>, errs |-> <<>>, console |-> 0]

\* one step of parse on the text t
Step(t, pe, s) ==
    CASE s.pc = "parse_loop" -> parse_loop(t, pe, s)
      [] s.pc = "directives" -> directive_loop(t, s)
      [] s.pc = "name" -> name_resolution(t, s)
      [] s.pc = "request_line" -> request_line_stage(t, s)
      [] s.pc = "end_check" -> end_of_request(t, s)
      [] s.pc = "headers" -> headers_stage(t, s)
      [] s.pc = "body" -> body_stage(t, s)
      [] s.pc = "response_handler" -> response_handler_stage(t, s)
      [] s.pc = "redirect" -> redirect_stage(t, s)
      [] s.pc = "finish" -> finish_request(t, s)
      [] s.pc = "resync" -> resync(t, pe, s)
      [] OTHER -> s

\* Parser::parse(text, print_errors) as a function: the state it ends in
RECURSIVE RunFrom(_, _, _)
RunFrom(t, pe, s) ==
    IF s.pc \in {"done", "aborted"} THEN s ELSE RunFrom(t, pe, Step(t, pe, s))

Parse(str) == RunFrom(str, FALSE, StartState)

\* ------------------------------------------------------------ the inputs
\* The texts parse is run on: one family per kind of request file.
NL == <<"\n">>
Cat(texts) == Join(texts, <<>>)
Quoted(str) == <<"\"">> \o str \o <<"\"">>

\* how many indented lines continue a request line
MaxContinuation == 2
\* how many parts a multipart body has
MaxParts == 2

\* a file that is one bare target line, with and without its newline
BareTargets == {Chars("https://a.b"), Chars("/x"), Chars("*"), Chars("a.b/c")}
BareTargetTexts == {target \o ending : target \in BareTargets, ending \in {<<>>, NL}}

\* a ### comment and a @name directive, in either order, before a request line
NameDirectives ==
    {[line |-> Chars("# @name=n1"), name |-> Chars("n1")],
     [line |-> Chars("// @name = n 2"), name |-> Chars("n 2")]}
NamedCases == [comment : {Chars("c1"), <<>>}, directive : NameDirectives, name_first : BOOLEAN]
NamedText(f) ==
    LET separator == Chars("### ") \o f.comment \o NL
        directive == f.directive.line \o NL
    IN  (IF f.name_first THEN directive \o separator ELSE separator \o directive)
        \o Chars("GET https://a.b\n")

\* a request line continued on indented lines
FirstLines == {Chars("GET https://a.b"), Chars("https://a.b"), Chars("POST /x")}
Continuations == {Chars("    /p"), Chars("\t?q=1 HTTP/1.1 ")}
SplitCases ==
    {[first |-> first, rest |-> rest] :
        first \in FirstLines,
        rest \in UNION {[1..n -> Continuations] : n \in 1..MaxContinuation}}
SplitText(f) == f.first \o NL \o Cat([i \in 1..Len(f.rest) |-> f.rest[i] \o NL])
RECURSIVE Appended(_, _)
Appended(first, rest) ==
    IF rest = <<>> THEN first ELSE Appended(first \o Trim(Head(rest)), Tail(rest))
SingleLineText(f) == Appended(f.first, f.rest) \o NL

\* a multipart request: the Content-Type names the boundary or not, every
\* part is introduced by a --boundary line, the body ends with --boundary--
PartDigits == Chars("123456789")
PartName(i) == <<"p", PartDigits[i]>>
PartContent(kind, i) ==
    IF kind = "file" THEN Chars("< ./f") \o <<PartDigits[i]>> \o NL
    ELSE <<"v", PartDigits[i]>> \o NL \o Chars("w\n")
PartData(kind, i) ==
    IF kind = "file" THEN DataFromFilepath(Chars("./f") \o <<PartDigits[i]>>)
    ELSE DataRaw(<<"v", PartDigits[i]>> \o NL \o <<"w">>)
PartText(boundary, name, content) ==
    Chars("--") \o boundary \o NL
    \o Chars("Content-Disposition: form-data; name=") \o Quoted(name) \o NL
    \o NL \o content
MultipartText(declared, boundary, parts, tail) ==
    Chars("POST https://a.b\nContent-Type: multipart/form-data")
    \o (IF declared THEN Chars("; boundary=") \o Quoted(boundary) ELSE <<>>) \o NL \o NL
    \o Cat([i \in 1..Len(parts) |-> PartText(boundary, parts[i].name, parts[i].content)])
    \o Chars("--") \o boundary \o Chars("--\n") \o tail

Boundaries == {Chars("B"), Chars("a+b.c")}
PartKinds == UNION {[1..n -> {"text", "file"}] : n \in 1..MaxParts}
Parts(kinds) == [i \in 1..Len(kinds) |-> [name |-> PartName(i), content |-> PartContent(kinds[i], i)]]
PartValues(kinds) ==
    [i \in 1..Len(kinds) |-> Multipart(DispositionField(PartName(i), None, None), <<>>, PartData(kinds[i], i))]
MultipartCases == [boundary : Boundaries, kinds : PartKinds]
WellFormedMultipartText(f) == MultipartText(TRUE, f.boundary, Parts(f.kinds), <<>>)

\* what may follow a body: a response handler and a redirect, after a blank line
Tails ==
    {[text |-> Chars("\n> ./h.js\n\n>> out.txt\n"),
      handler |-> Script("FromFilepath", Chars("./h.js")),
      save |-> SaveResponse("NewFileIfExists", Chars("out.txt"))],
     [text |-> Chars("\n> {% h(); %}\n\n>>! out.txt\n"),
      handler |-> Script("Script", Chars(" h(); ")),
      save |-> SaveResponse("RewriteFile", Chars("out.txt"))]}

\* a multipart request whose Content-Type names no boundary
TextKinds(n) == [i \in 1..n |-> "text"]
NoBoundaryCases == [parts : 0..MaxParts, tail : {<<>>} \cup {tl.text : tl \in Tails}]
NoBoundaryText(f) ==
    MultipartText(FALSE, DEFAULT_MULTIPART_BOUNDARY, Parts(TextKinds(f.parts)), f.tail)

\* a multipart request with a non-fatal diagnostic, followed by a handler and
\* a redirect; Quiet is the same request without the cause of the diagnostic
DiagnosedCases == [cause : {"no boundary", "empty name"}, tail : Tails]
OnePart(name) == <<[name |-> name, content |-> PartContent("text", 1)]>>
DiagnosedText(f) ==
    IF f.cause = "no boundary"
    THEN MultipartText(FALSE, DEFAULT_MULTIPART_BOUNDARY, OnePart(PartName(1)), f.tail.text)
    ELSE MultipartText(TRUE, Chars("B"), OnePart(<<>>), f.tail.text)
QuietText(f) ==
    IF f.cause = "no boundary"
    THEN MultipartText(TRUE, DEFAULT_MULTIPART_BOUNDARY, OnePart(PartName(1)), f.tail.text)
    ELSE MultipartText(TRUE, Chars("B"), OnePart(PartName(1)), f.tail.text)
DiagnosedBody(f) ==
    IF f.cause = "no boundary"
    THEN BodyMultipart(DEFAULT_MULTIPART_BOUNDARY, PartValues(TextKinds(1)))
    ELSE BodyMultipart(Chars("B"), <<Multipart(DispositionField(<<>>, None, None), <<>>, PartData("text", 1))>>)


\* a request with headers and no body text
HeaderLists ==
    {[lines |-> <<>>, typed |-> FALSE],
     [lines |-> <<Chars("Accept: x")>>, typed |-> FALSE],
     [lines |-> <<Chars("Content-Type: application/json")>>, typed |-> TRUE],
     [lines |-> <<Chars("Accept: x"), Chars("Content-Type: text/plain")>>, typed |-> TRUE]}
AfterHeaders == {<<>>, NL, Chars("\n\n###\nGET /y\n"), Chars("\n\n> ./h.js\n")}
EmptyBodyCases == [headers : HeaderLists, after : AfterHeaders]
EmptyBodyText(f) == Join(<<Chars("POST https://a.b")>> \o f.headers.lines, NL) \o f.after

\* three requests between separator lines; the second is malformed or well formed
SecondRequests ==
    {[malformed |-> Chars("POST https://a.b/2\nContent-Type: multipart/form-data; boundary=\"B\"\n\n--B\nContent-Disposition: form-data; name=\"f\"\n\nvalue\n"),
      well_formed |-> Chars("POST https://a.b/2\nContent-Type: multipart/form-data; boundary=\"B\"\n\n--B\nContent-Disposition: form-data; name=\"f\"\n\nvalue\n--B--\n\n")],
     [malformed |-> Chars("POST https://a.b/2\nA: b\n"),
      well_formed |-> Chars("POST https://a.b/2\nA: b\n\n")],
     [malformed |-> Chars("GET https://a.b/2\nno header\n\n"),
      well_formed |-> Chars("GET https://a.b/2\nA: b\n\n")],
     [malformed |-> Chars("GET https://a.b/2 HTTP/1.1 more\n\n"),
      well_formed |-> Chars("GET https://a.b/2 HTTP/1.1\n\n")]}
ThirdRequests == {Chars("GET https://a.b/3\n"), Chars("POST https://a.b/3\nA: b\n\nbody3\n")}
ThreeCases == [second : SecondRequests, third : ThirdRequests]
ThreeRequests(second, third) ==
    Chars("GET https://a.b/1\n\n###\n") \o second \o Chars("###\n") \o third
MalformedText(f) == ThreeRequests(f.second.malformed, f.third)
WellFormedText(f) == ThreeRequests(f.second.well_formed, f.third)

\* directives, then a request that fails at one of the stages of parse_request
DirectiveBlocks ==
    {<<>>,
     Chars("< pre.js\n"),
     Chars("< {% s(); %}\n"),
     Chars("# @name=n\n# @no-log\n// c\n"),
     Chars("< pre.js\n# @name=n\n# @no-log\n// c\n"),
     Chars("### c0\n< {% s(); %}\n// @no-redirect\n")}
FailingRequests ==
    {<<>>,
     Chars("Content-Type: a\n###\nGET /x\n"),
     Chars("GET /x\nno header\n"),
     Chars("GET /x\n\n> {% never closed\n"),
     Chars("GET /x\n\n>>"),
     Chars("GET /x HTTP/9\n")}
FailingTexts == {directives \o request : directives \in DirectiveBlocks, request \in FailingRequests}

\* multipart requests with a quote or a byte that the parser slices or decodes
OddMultipartTexts ==
    {Chars("POST https://a.b\nContent-Type: multipart/form-data; boundary=\"\n\n"),
     MultipartText(TRUE, Chars("B"), <<[name |-> <<>>, content |-> <<>>]>>, <<>>),
     Chars("POST https://a.b\nContent-Type: multipart/form-data; boundary=\"B\"\n\n--B\nContent-Disposition: form-data; name=\"\n\nv\n--B--\n"),
     Chars("POST https://a.b\nContent-Type: multipart/form-data; boundary=b") \o <<NonAscii>> \o NL \o NL,
     Chars("POST https://a.b\nContent-Type: multipart/form-data; boundary=a@b\n\n")}


\* how many pairs a URL-encoded body has
MaxPairs == 3

\* a URL-encoded body: pieces joined with &, each a key with "=value", "=" or nothing
UrlPieces ==
    {[text |-> Chars("a=b"), key |-> Chars("a"), value |-> Chars("b")],
     [text |-> Chars("c=d"), key |-> Chars("c"), value |-> Chars("d")],
     [text |-> Chars("e="), key |-> Chars("e"), value |-> <<>>],
     [text |-> Chars("f"), key |-> Chars("f"), value |-> <<>>]}
UrlCases == UNION {[1..n -> UrlPieces] : n \in 1..MaxPairs}
UrlText(f) ==
    Chars("POST https://a.b\nContent-Type: application/x-www-form-urlencoded\n\n")
    \o Join([i \in 1..Len(f) |-> f[i].text], <<"&">>) \o NL
UrlPairs(f) == [i \in 1..Len(f) |-> [key |-> f[i].key, value |-> f[i].value]]


\* comments before a request that ends at the end of input, at a separator
\* line directly after its request line, after a blank line, or after a body
CommentBlocks ==
    {Chars("// c\n"),
     Chars("# see a@b\n"),
     Chars("# see a@b\n// c\n# d\n"),
     Chars("###\n// c\n")}
RequestEndings ==
    {Chars("GET /x\n"),
     Chars("GET /x\n###\nGET /y\n"),
     Chars("GET /x\n\n###\nGET /y\n"),
     Chars("POST /x\nA: b\n\nbody\n")}
CommentedTexts == {block \o ending : block \in CommentBlocks, ending \in RequestEndings}


\* a @name directive with an empty value, before another directive line
EmptyNameLines == {Chars("# @name=\n"), Chars("// @name = \n")}
NextLines == {<<>>, Chars("# @no-log\n"), Chars("// c\n"), Chars("< pre.js\n"), Chars("# @name=n\n")}
EmptyNameCases == [empty : EmptyNameLines, following : NextLines]
WithoutEmptyName(f) == f.following \o Chars("GET https://a.b\n")
WithEmptyName(f) == f.empty \o WithoutEmptyName(f)


\* a request line of one, two or three tokens, the first without a colon
LineMethods == {Chars("GET"), Chars("CUSTOM")}
LineTargets == {Chars("/x"), Chars("*"), Chars("https://a.b")}
VersionTokens ==
    {[text |-> Chars("HTTP/1.1"), ok |-> TRUE, major |-> Chars("1"), minor |-> Chars("1")],
     [text |-> Chars("HTTP/20.0"), ok |-> TRUE, major |-> Chars("20"), minor |-> Chars("0")],
     [text |-> Chars("HTTP/9"), ok |-> FALSE, major |-> <<>>, minor |-> <<>>],
     [text |-> Chars("HTTP/1.x"), ok |-> FALSE, major |-> <<>>, minor |-> <<>>],
     [text |-> Chars("1.1"), ok |-> FALSE, major |-> <<>>, minor |-> <<>>]}
Gaps == {Chars(" "), Chars(" \t ")}
TokenCases == [k : 1..3, method : LineMethods, target : {tg \in LineTargets : ~ContainsChar(tg, ":")},
               version : VersionTokens, gap : Gaps]
    \cup [k : 2..3, method : LineMethods, target : LineTargets, version : VersionTokens, gap : Gaps]
TokenText(f) ==
    (IF f.k = 1 THEN f.target
     ELSE IF f.k = 2 THEN f.method \o f.gap \o f.target
     ELSE f.method \o f.gap \o f.target \o f.gap \o f.version.text) \o NL
ExpectedTarget(target) ==
    IF target = Chars("*") THEN [kind |-> "Asterisk", uri |-> <<>>]
    ELSE IF target = Chars("/x") THEN [kind |-> "RelativeOrigin", uri |-> target]
    ELSE [kind |-> "Absolute", uri |-> target]
ExpectedLine(f) ==
    [target |-> ExpectedTarget(f.target),
     method |-> IF f.k = 1 THEN Defaulted ELSE Explicit(f.method),
     http_version |-> IF f.k = 3 /\ f.version.ok
                      THEN Explicit([major |-> f.version.major, minor |-> f.version.minor])
                      ELSE Defaulted]


\* how many header lines a request has
MaxHeaders == 2

\* header lines with the key and the value the line stands for
HeaderLines ==
    {[line |-> Chars("Host: localhost:8080"), key |-> Chars("Host"), value |-> Chars("localhost:8080")],
     [line |-> Chars("Custom: ::::::"), key |-> Chars("Custom"), value |-> Chars("::::::")],
     [line |-> Chars("A:b"), key |-> Chars("A"), value |-> Chars("b")],
     [line |-> Chars("A: \t c d"), key |-> Chars("A"), value |-> Chars("c d")],
     [line |-> Chars("A: b  "), key |-> Chars("A"), value |-> Chars("b")]}
HeaderCases == UNION {[1..n -> HeaderLines] : n \in 1..MaxHeaders}
HeaderText(f) == Chars("GET /x\n") \o Cat([i \in 1..Len(f) |-> f[i].line \o NL])
ExpectedHeaders(f) == [i \in 1..Len(f) |-> Header(f[i].key, f[i].value)]
\* lines that are not of the form key:value, after a well-formed header line
InvalidHeaderLines == {Chars("no colon"), Chars(":v"), Chars("A:")}
InvalidHeaderText(line) == Chars("GET /x\nHost: a\n") \o line \o NL


\* a multipart body whose second part has no headers, a first header other than
\* Content-Disposition, or a disposition type other than form-data
BadPartHeaders ==
    {[lines |-> <<>>, error |-> "MissingSingleMultipartContentDispositionHeader"],
     [lines |-> Chars("Content-Type: text/plain\n"), error |-> "WrongMultipartContentDispositionHeader"],
     [lines |-> Chars("Content-Disposition: attachment; name=\"p\"\n"),
      error |-> "InvalidMultipartContentDispositionFormData"]}
BadPartCases == [bad : BadPartHeaders, before : 0..1]
BadPartText(f) ==
    Chars("POST https://a.b\nContent-Type: multipart/form-data; boundary=\"B\"\n\n")
    \o Cat([i \in 1..f.before |-> PartText(Chars("B"), PartName(i), PartContent("text", i))])
    \o Chars("--B\n") \o f.bad.lines \o Chars("\nvalue\n--B--\n")


\* a multipart body that ends with its last part, without the --B-- line
UnendedCases == [kinds : PartKinds]
UnendedText(f) ==
    Chars("POST https://a.b\nContent-Type: multipart/form-data; boundary=\"B\"\n\n")
    \o Cat([i \in 1..Len(f.kinds) |-> PartText(Chars("B"), PartName(i), PartContent(f.kinds[i], i))])


\* boundaries of one character, of the lengths around the limits, and of mixed
\* characters, declared in quotes by a multipart request without body text
RECURSIVE Repeat(_, _)
Repeat(s, n) == IF n = 0 THEN <<>> ELSE s \o Repeat(s, n - 1)
CharSet(str) == {Chars(str)[i] : i \in 1..Len(str)}
Alphanumerics == CharSet("0123456789abcdefghijklmnopqrstuvwxyzABCDEFGHIJKLMNOPQRSTUVWXYZ")
ListedPunctuation == CharSet("'()+,-./:=?")
OtherAscii == CharSet(" !#$%&*;<>@[]^{|}~") \cup {"\\"}
BoundarySamples ==
    {<<ch>> : ch \in Alphanumerics \cup ListedPunctuation \cup OtherAscii \cup {"_"}}
    \cup {<<>>, Repeat(<<"a">>, MaxBoundaryLen), Repeat(<<"a">>, MaxBoundaryLen + 1),
          Repeat(<<"a">>, MaxBoundaryLen) \o <<" ">>, Repeat(<<"a">>, MaxBoundaryLen - 1) \o <<" ">>,
          Chars("a b"), Chars("a_b"), Chars("ab*c d"), Chars("AZ09'()+_,-./:=?")}
BoundaryText(boundary) ==
    Chars("POST https://a.b\nContent-Type: multipart/form-data; boundary=") \o Quoted(boundary) \o NL \o NL
\* the first character of the boundary that is not in the alphabet, if any
FirstOutside(boundary, alphabet) ==
    LET outside == {i \in 1..Len(boundary) : boundary[i] \notin alphabet}
    IN  IF outside = {} THEN None
        ELSE Some(boundary[CHOOSE i \in outside : \A j \in outside : i <= j])
\* what the validation of the boundary must give for the alphabet
BoundaryVerdict(boundary, alphabet) ==
    IF Len(boundary) < 1 \/ Len(boundary) > MaxBoundaryLen
    THEN <<Diag("InvalidMultipartBoundaryLength", <<>>, None, None)>>
    ELSE IF IsSome(FirstOutside(boundary, alphabet))
    THEN <<Diag("InvalidMultipartBoundaryCharacter", FirstOutside(boundary, alphabet), None, None)>>
    ELSE <<>>
\* the returned result agrees with the verdict: no diagnostic and a successful
\* request with that boundary, or a failure record with just that diagnostic
AgreesWith(verdict, boundary, result) ==
    IF verdict = <<>>
    THEN /\ result.errs = <<>>
         /\ Len(result.requests) = 1
         /\ result.requests[1].body = BodyMultipart(boundary, <<>>)
    ELSE /\ result.requests = <<>>
         /\ Len(result.errs) = 1
         /\ result.errs[1].details = verdict
         /\ result.errs[1].partial_request.body = Some(BodyMultipart(boundary, <<>>))


\* ------------------------------------- inputs: placeholders in the target
\* the variable-set calls of an inline pre-request script, as (key, value) pairs
SetCalls ==
    {<<<<Chars("id"), Chars("5")>>>>,
     <<<<Chars("id"), Chars("5")>>, <<Chars("id"), Chars("7")>>>>,
     <<<<Chars("id"), Chars("5")>>, <<Chars("host"), Chars("ab")>>>>,
     <<<<Chars("v"), Chars("id")>>, <<Chars("id"), Chars("5")>>>>}

PlaceholderTargets ==
    {Chars("https://x.y/{{id}}"),
     Chars("https://x.y/{{id}}/{{id}}"),
     Chars("https://{{host}}.y/{{id}}"),
     Chars("https://x.y/{{id}}/{{other}}"),
     Chars("https://x.y/id/{{id}}"),
     Chars("https://x.y/{{v}}/{{id}}"),
     Chars("https://x.y/{{other}}")}

PlaceholderCases == [sets : SetCalls, target : PlaceholderTargets]

RECURSIVE SetCallLines(_)
SetCallLines(sets) ==
    IF sets = <<>> THEN <<>>
    ELSE Chars("request.variables.set(\"") \o sets[1][1] \o Chars("\", \"") \o sets[1][2]
             \o Chars("\")\n") \o SetCallLines(Tail(sets))

PlaceholderText(f) ==
    Chars("< {%\n") \o SetCallLines(f.sets) \o Chars("%}\nGET ") \o f.target \o <<"\n">>

\* the value of the first set call of the key, if there is one
FirstSet(sets, key) ==
    LET calls == {j \in 1..Len(sets) : sets[j][1] = key}
    IN  IF calls = {} THEN <<>>
        ELSE <<sets[CHOOSE j \in calls : \A k \in calls : j <= k][2]>>

\* the target with every {{identifier}} that has a set call replaced by its
\* value in one pass from left to right, and everything else copied
RECURSIVE SimultaneousPass(_, _, _)
SimultaneousPass(uri, i, sets) ==
    IF i > Len(uri) THEN <<>>
    ELSE LET e == WordEnd(uri, i + 2)
             placeholder == HasAt(uri, i, Chars("{{")) /\ e > i + 2 /\ HasAt(uri, e, Chars("}}"))
             key == SubSeq(uri, i + 2, e - 1)
         IN  IF placeholder /\ FirstSet(sets, key) # <<>>
             THEN FirstSet(sets, key)[1] \o SimultaneousPass(uri, e + 2, sets)
             ELSE <<uri[i]>> \o SimultaneousPass(uri, i + 1, sets)


\* ------------------------------------------ inputs: unclosed script blocks
\* what follows an opening {% when no closing %} comes before the end of input
UnclosedBodies ==
    {<<>>, Chars(" never closed\n"), Chars("\nlet a = 1;\n"), Chars(" a % }\n"),
     Chars("\nx\n###\nGET /y\n")}

UnclosedCases == [script : {"pre_request", "response_handler"}, rest : UnclosedBodies]

UnclosedText(f) ==
    IF f.script = "pre_request"
    THEN Chars("< {%") \o f.rest \o Chars("GET https://a.b\n")
    ELSE Chars("GET https://a.b\n\n> {%") \o f.rest

UnclosedError(f) ==
    IF f.script = "pre_request" THEN "MissingPreRequestScriptClose" ELSE "MissingResponseHandlerClose"


\* ------------------------------------- inputs: file-path script references
\* what follows a script marker on its own line
MarkerRests == {<<>>, Chars(" "), Chars(" ./s.js"), Chars("./s.js  ")}

\* what follows the marker line
MarkerTails == {<<>>, Chars("###\nGET https://c.d\n")}

MarkerCases == [script : {"pre_request", "response_handler"}, rest : MarkerRests, tail : MarkerTails]

MarkerText(f) ==
    IF f.script = "pre_request"
    THEN Chars("<") \o f.rest \o NL \o f.tail \o Chars("GET https://a.b\n")
    ELSE Chars("GET https://a.b\n\n>") \o f.rest \o NL \o f.tail

\* the script reference of the given kind a request carries
ScriptOf(script, request) ==
    IF script = "pre_request" THEN request.pre_request_script ELSE request.response_handler


\* ------------------------------------------------ inputs: redirect lines
\* what a request has before its redirect line
RedirectHeads ==
    {Chars("GET https://a.b\n\n"), Chars("GET https://a.b\n\nbody\n\n"),
     Chars("GET https://a.b\n\n> ./h.js\n\n")}

\* what follows the redirect marker; the empty text ends the input at the marker
RedirectRests ==
    {<<>>, NL, Chars(" out.txt\n"), Chars("  out.txt  \n"), Chars("out.txt"),
     Chars(" a b.txt\n###\nGET https://c.d\n")}

RedirectCases == [head : RedirectHeads, marker : {Chars(">>"), Chars(">>!"), Chars(" >>"), Chars(">")}, rest : RedirectRests]

RedirectText(f) == f.head \o f.marker \o f.rest

\* the text of the line that starts at offset c of t
LineAt(t, c) ==
    LET stop == CHOOSE e \in c..Len(t) :
                    /\ e = Len(t) \/ t[e + 1] = "\n"
                    /\ \A i \in (c + 1)..e : t[i] # "\n"
    IN  SubSeq(t, c + 1, stop)


\* ------------------------------------ inputs: separators after a raw body
SeparatorIndents == {<<>>, Chars(" "), Chars("  "), <<"\t">>}
RawBodies == {Chars("body\n"), Chars("{\n  \"a\": 1\n}\n"), Chars("one\n\n")}
SeparatorLines == {Chars("###"), Chars("### next"), Chars("####")}

RawSeparatorCases == [body : RawBodies, indent : SeparatorIndents, separator : SeparatorLines]

RawSeparatorText(f) ==
    Chars("POST https://a.b\n\n") \o f.body \o f.indent \o f.separator \o Chars("\nGET https://c.d\n")

\* a line whose first non-whitespace characters are the request separator
IsSeparatorLine(line) == StartsWith(TrimStart(line), REQUEST_SEPARATOR)


\* --------------------------------------- inputs: blocks without a request
\* how many lines a block without a request line has
MaxBlockLines == 2

\* a line of the block, and what it adds to the name, the comments and the settings
BlockLines ==
    {[text |-> Chars("// c"), kind |-> "comment", comment |-> Comment(Chars("c"), "DoubleSlash"), name |-> <<>>],
     [text |-> Chars("# d"), kind |-> "comment", comment |-> Comment(Chars("d"), "SingleTag"), name |-> <<>>],
     [text |-> Chars("###"), kind |-> "comment", comment |-> Comment(<<>>, "RequestSeparator"), name |-> <<>>],
     [text |-> Chars("### nm"), kind |-> "comment", comment |-> Comment(Chars("nm"), "RequestSeparator"), name |-> <<>>],
     [text |-> Chars("# @name=n"), kind |-> "name", comment |-> Comment(<<>>, ""), name |-> Chars("n")],
     [text |-> Chars("// @no-log"), kind |-> "setting", comment |-> Comment(<<>>, ""), name |-> <<>>]}

\* what precedes the block: nothing, or a request and the separator that ends it
BlockHeads ==
    {[text |-> <<>>, requests |-> 0, comments |-> <<>>],
     [text |-> Chars("GET https://a.b\n###\n"), requests |-> 1,
      comments |-> <<Comment(<<>>, "RequestSeparator")>>]}

\* what follows the last line of the block
BlockEnds == {NL, Chars("\n\n"), Chars("\n  ")}

BlockCases ==
    {[head |-> head, lines |-> lines, end |-> end] :
        head \in BlockHeads, end \in BlockEnds,
        lines \in UNION {[1..n -> BlockLines] : n \in 1..MaxBlockLines}}

BlockText(f) ==
    f.head.text \o Join([i \in 1..Len(f.lines) |-> f.lines[i].text], NL) \o f.end

BlockName(f) ==
    LET names == {i \in 1..Len(f.lines) : f.lines[i].kind = "name"}
    IN  IF names = {} THEN None
        ELSE Some(f.lines[CHOOSE i \in names : \A j \in names : j <= i].name)

RECURSIVE BlockCommentsOf(_)
BlockCommentsOf(lines) ==
    IF lines = <<>> THEN <<>>
    ELSE (IF lines[1].kind = "comment" THEN <<lines[1].comment>> ELSE <<>>) \o BlockCommentsOf(Tail(lines))

BlockComments(f) == f.head.comments \o BlockCommentsOf(f.lines)

BlockSettings(f) ==
    IF \E i \in 1..Len(f.lines) : f.lines[i].kind = "setting"
    THEN [no_cookie_jar |-> Some(FALSE), no_redirect |-> Some(FALSE), no_log |-> Some(TRUE)]
    ELSE DefaultSettings


\* ------------------------- inputs: a diagnosed request line before a separator
\* request lines that parse with a non-fatal diagnostic
DiagnosedLines ==
    {[text |-> Chars("GET https://a.b BAD"), error |-> "InvalidHttpVersion"],
     [text |-> Chars("GET https://a.b HTTP/1.1 x y"), error |-> "TooManyElementsOnRequestLine"],
     [text |-> Chars("CUSTOM /x HTTP/9"), error |-> "InvalidHttpVersion"]}

EndSeparators == {Chars("###"), Chars("### next"), Chars("####")}
AfterSeparator == {<<>>, Chars("GET https://c.d\n")}

EndCheckCases == [line : DiagnosedLines, separator : EndSeparators, next : AfterSeparator]

\* the separator directly after the request line, and after a blank line
DirectText(f) == f.line.text \o NL \o f.separator \o NL \o f.next
SpacedText(f) == f.line.text \o NL \o NL \o f.separator \o NL \o f.next


\* ------------------------------------------- inputs: several driver rounds
\* texts that take the driver loop and the directive loop round several times
DriverTexts ==
    {Chars("GET https://a.b BAD\n###\n# @name=n\n// c\n< pre.js\nGET https://c.d\n\n###\n"),
     Chars("\n \n\t\n"),
     Chars("###\n###\n###\n"),
     Chars("# @name=\n<\n< {%\n%}\n//\n#\nGET /x\n\n\n###\n\n  \nGET /y"),
     Chars("GET /x\n\nbody\n\n> {% h %}\n\n>> o\n\ntext after\nmore\n### n\nGET /y\n")}


\* ------------------------------------- inputs: blocks whose first line is a header
\* a block that starts with a header line has no request line
HeaderFirstTexts ==
    {Chars("Content-Type: a\n\nbody\n"),
     Chars("Content-Type: a\nX: y z\n\nbody\n\n> ./h.js\n\n>> out.txt\n"),
     Chars("# @name=n\nA: b c\n###\nGET https://a.b\n"),
     Chars("GET https://a.b\n\n###\nHost: a b\n\n###\nGET https://c.d\n")}


\* --------------------------------------- inputs: text after the end boundary
\* text after the end boundary line that is shaped like one more part
ExtraPart(boundary, content, ended) ==
    Chars("Content-Disposition: form-data; name=\"extra\"\n\n") \o content
    \o (IF ended THEN Chars("--") \o boundary \o Chars("--\n") ELSE <<>>)

AfterEndCases ==
    [boundary : Boundaries, kinds : PartKinds,
     content : {Chars("x\n"), Chars("< ./fx\n")}, ended : BOOLEAN]

AfterEndText(f) ==
    MultipartText(TRUE, f.boundary, Parts(f.kinds), ExtraPart(f.boundary, f.content, f.ended))

Inputs ==
    BareTargetTexts
    \cup {NamedText(f) : f \in NamedCases}
    \cup {SplitText(f) : f \in SplitCases}
    \cup {WellFormedMultipartText(f) : f \in MultipartCases}
    \cup {NoBoundaryText(f) : f \in NoBoundaryCases}
    \cup {DiagnosedText(f) : f \in DiagnosedCases}
    \cup {EmptyBodyText(f) : f \in EmptyBodyCases}
    \cup {MalformedText(f) : f \in ThreeCases}
    \cup FailingTexts
    \cup OddMultipartTexts
    \cup {UrlText(f) : f \in UrlCases}
    \cup CommentedTexts
    \cup {WithEmptyName(f) : f \in EmptyNameCases}
    \cup {TokenText(f) : f \in TokenCases}
    \cup {HeaderText(f) : f \in HeaderCases} \cup {InvalidHeaderText(line) : line \in InvalidHeaderLines}
    \cup {BadPartText(f) : f \in BadPartCases}
    \cup {UnendedText(f) : f \in UnendedCases}
    \cup {BoundaryText(boundary) : boundary \in BoundarySamples}
    \cup {PlaceholderText(f) : f \in PlaceholderCases}
    \cup {UnclosedText(f) : f \in UnclosedCases}
    \cup {MarkerText(f) : f \in MarkerCases}
    \cup {RedirectText(f) : f \in RedirectCases}
    \cup {RawSeparatorText(f) : f \in RawSeparatorCases}
    \cup {BlockText(f) : f \in BlockCases}
    \cup {DirectText(f) : f \in EndCheckCases}
    \cup DriverTexts
    \cup HeaderFirstTexts
    \cup {AfterEndText(f) : f \in AfterEndCases}

\* ------------------------------------------------------------ the state machine
VARIABLES input, print_errors, pc, cursor, name, comments, settings,
          pre_request_script, request_line, headers, body, response_handler,
          save_response, parse_errs, requests, errs, console

vars == <<input, print_errors, pc, cursor, name, comments, settings,
          pre_request_script, request_line, headers, body, response_handler,
          save_response, parse_errs, requests, errs, console>>

\* the parser state the variables hold
St ==
    [pc |-> pc, cursor |-> cursor, name |-> name, comments |-> comments,
     settings |-> settings, pre_request_script |-> pre_request_script,
     request_line |-> request_line, headers |-> headers, body |-> body,
     response_handler |-> response_handler, save_response |-> save_response,
     parse_errs |-> parse_errs, requests |-> requests, errs |-> errs, console |-> console]

Install(s) ==
    /\ pc' = s.pc /\ cursor' = s.cursor /\ name' = s.name /\ comments' = s.comments
    /\ settings' = s.settings /\ pre_request_script' = s.pre_request_script
    /\ request_line' = s.request_line /\ headers' = s.headers /\ body' = s.body
    /\ response_handler' = s.response_handler /\ save_response' = s.save_response
    /\ parse_errs' = s.parse_errs /\ requests' = s.requests /\ errs' = s.errs
    /\ console' = s.console
    /\ UNCHANGED <<input, print_errors>>

Init ==
    /\ input \in Inputs
    /\ print_errors \in BOOLEAN
    /\ pc = StartState.pc /\ cursor = StartState.cursor /\ name = StartState.name
    /\ comments = StartState.comments /\ settings = StartState.settings
    /\ pre_request_script = StartState.pre_request_script
    /\ request_line = StartState.request_line /\ headers = StartState.headers
    /\ body = StartState.body /\ response_handler = StartState.response_handler
    /\ save_response = StartState.save_response /\ parse_errs = StartState.parse_errs
    /\ requests = StartState.requests /\ errs = StartState.errs
    /\ console = StartState.console

ParseLoop == pc = "parse_loop" /\ Install(parse_loop(input, print_errors, St))
DirectiveLoop == pc = "directives" /\ Install(directive_loop(input, St))
NameResolution == pc = "name" /\ Install(name_resolution(input, St))
RequestLine == pc = "request_line" /\ Install(request_line_stage(input, St))
EndOfRequest == pc = "end_check" /\ Install(end_of_request(input, St))
Headers == pc = "headers" /\ Install(headers_stage(input, St))
Body == pc = "body" /\ Install(body_stage(input, St))
ResponseHandler == pc = "response_handler" /\ Install(response_handler_stage(input, St))
Redirect == pc = "redirect" /\ Install(redirect_stage(input, St))
FinishRequest == pc = "finish" /\ Install(finish_request(input, St))
Resync == pc = "resync" /\ Install(resync(input, print_errors, St))

Next ==
    \/ ParseLoop
    \/ DirectiveLoop
    \/ NameResolution
    \/ RequestLine
    \/ EndOfRequest
    \/ Headers
    \/ Body
    \/ ResponseHandler
    \/ Redirect
    \/ FinishRequest
    \/ Resync

Spec == Init /\ [][Next]_vars

\* parse has returned
Done == pc = "done"

\* the call of parse has ended: it has returned, or it has panicked
Terminated == pc \in {"done", "aborted"}

\* parse is a sequential function: it keeps taking steps until the call ends.
\* This is WF_vars(Next), written without ENABLED: Next is enabled in every
\* state in which the call has not ended.
FairSpec == Spec /\ ([]<>Terminated \/ []<><<Next>>_vars)

\* the parser state at the top of the next iteration of the driver loop, or
\* at the end of the call
RECURSIVE IterationEnd(_, _, _)
IterationEnd(t, pe, s) ==
    IF s.pc \in {"parse_loop", "done", "aborted"} THEN s
    ELSE IterationEnd(t, pe, Step(t, pe, s))
\* the result parse returned
Result == [requests |-> requests, errs |-> errs]

\* the request line of the first record parse returned
RequestLineOf(result) ==
    IF result.requests # <<>> THEN Some(result.requests[1].request_line)
    ELSE result.errs[1].partial_request.request_line

\* ------------------------------------------------------------------ claims
\* C1: of three requests between separator lines of which only the second is
\* malformed, parse returns exactly two successful requests and one failure,
\* and the third request's record is the one it has when the second is well formed.
C1_OthersYieldTheirRecord ==
    \A f \in ThreeCases :
        (Done /\ input = MalformedText(f)) =>
            /\ Len(requests) = 2
            /\ Len(errs) = 1
            /\ requests[2] = Parse(WellFormedText(f)).requests[3]

\* parse has returned two records for a file of three requests
C1_ThirdRequestLost ==
    \E f \in ThreeCases : Done /\ input = MalformedText(f) /\ Len(requests) + Len(errs) = 2

\* C2: parse returns a result for every text; no input makes it abort.
C2_ParseNeverAborts == pc # "aborted"

\* parse has panicked on a multipart request
C2_Panicked == pc = "aborted" /\ input \in OddMultipartTexts /\ requests = <<>> /\ errs = <<>>

C4_DiagnosticKeepsControlFlow ==
    \A f \in DiagnosedCases :
        (Done /\ input = DiagnosedText(f)) =>
            /\ Len(errs) = 1
            /\ Len(errs[1].details) = 1
            /\ errs[1].partial_request.body = Some(DiagnosedBody(f))
            /\ errs[1].partial_request.response_handler = Some(f.tail.handler)
            /\ errs[1].partial_request.save_response = Some(f.tail.save)
            /\ errs[1].partial_request.response_handler = Parse(QuietText(f)).requests[1].response_handler
            /\ errs[1].partial_request.save_response = Parse(QuietText(f)).requests[1].save_response

C4_HandlerAfterDiagnostic ==
    \E f \in DiagnosedCases :
        /\ f.cause = "empty name"
        /\ Done /\ input = DiagnosedText(f)
        /\ errs[1].details[1].error = "SingleMultipartNameMissing"
        /\ IsSome(errs[1].partial_request.response_handler)
        /\ IsSome(errs[1].partial_request.save_response)

\* C5: whenever parse_request returns a failure, the partial holds the name,
\* the comments, the settings and the pre-request script that the directive
\* loop gathered, whichever stage failed.
C5_PartialKeepsDirectives ==
    [][Len(errs') > Len(errs) =>
        /\ errs'[Len(errs')].partial_request.name = name
        /\ errs'[Len(errs')].partial_request.comments = comments
        /\ errs'[Len(errs')].partial_request.settings = settings
        /\ errs'[Len(errs')].partial_request.pre_request_script = pre_request_script]_vars

\* a failure has just been returned whose partial has no pre-request script,
\* though the directive loop parsed one
C5_ScriptDropped ==
    /\ pc = "resync"
    /\ errs # <<>>
    /\ IsSome(pre_request_script)
    /\ ~IsSome(errs[Len(errs)].partial_request.pre_request_script)

\* C6: a file that is one bare target line yields exactly one successful
\* request and no failure: method and version are defaulted, there are no
\* headers, the body is None and the name is None.
C6_BareTarget ==
    \A target \in BareTargets :
        (Done /\ input \in {target, target \o NL}) =>
            /\ errs = <<>>
            /\ Len(requests) = 1
            /\ requests[1].request_line.target = RequestTargetFrom(target)
            /\ requests[1].request_line.method = Defaulted
            /\ requests[1].request_line.http_version = Defaulted
            /\ requests[1].headers = <<>>
            /\ requests[1].body = BodyNone
            /\ requests[1].name = None

C6_BareTargetParsed ==
    /\ Done /\ input = Chars("https://a.b\n")
    /\ Len(requests) = 1
    /\ requests[1].request_line.target.uri = Chars("https://a.b")

\* C7: with a ### comment and a @name directive of non-empty value, in either
\* order, the request's name is the directive's value and the ### comment
\* stays in the comments.
C7_DirectiveNames ==
    \A f \in NamedCases :
        (Done /\ input = NamedText(f)) =>
            /\ errs = <<>>
            /\ Len(requests) = 1
            /\ requests[1].name = Some(f.directive.name)
            /\ \E i \in 1..Len(requests[1].comments) :
                   requests[1].comments[i] = Comment(f.comment, "RequestSeparator")

C7_NamedAfterComment ==
    \E f \in NamedCases :
        /\ ~f.name_first /\ f.comment # <<>>
        /\ Done /\ input = NamedText(f)
        /\ requests[1].name = Some(f.directive.name)
        /\ Len(requests[1].comments) = 1

\* C8: a request line continued on lines that begin with whitespace parses to
\* the same RequestLine as the one line made of the first line with the
\* trimmed continuation lines appended, nothing in between.
C8_SplitLikeSingleLine ==
    \A f \in SplitCases :
        (Done /\ input = SplitText(f)) =>
            /\ RequestLineOf(Result) = RequestLineOf(Parse(SingleLineText(f)))
            /\ Len(requests) = Len(Parse(SingleLineText(f)).requests)

C8_SplitParsed ==
    \E f \in SplitCases :
        /\ Len(f.rest) = MaxContinuation
        /\ Done /\ input = SplitText(f)
        /\ Len(requests) = 1
        /\ requests[1].request_line.http_version # Defaulted
        /\ requests[1].request_line.target.uri = Chars("https://a.b/p?q=1")

\* C9: a multipart body with a valid boundary B and N well-formed parts, each
\* after a --B line, the last followed by --B--, parses to Multipart with
\* boundary B and exactly the N parts in source order, with no diagnostic.
C9_PartsInOrder ==
    \A f \in MultipartCases :
        (Done /\ input = WellFormedMultipartText(f)) =>
            /\ errs = <<>>
            /\ Len(requests) = 1
            /\ requests[1].body = BodyMultipart(f.boundary, PartValues(f.kinds))

C9_AllPartsParsed ==
    \E f \in MultipartCases :
        /\ Len(f.kinds) = MaxParts
        /\ Done /\ input = WellFormedMultipartText(f)
        /\ Len(requests) = 1
        /\ Len(requests[1].body.parts) = MaxParts
        /\ requests[1].body.parts[1].disposition.name # requests[1].body.parts[MaxParts].disposition.name

\* C10: with no body text, a request without Content-Type has body None, a
\* request with a Content-Type that is neither multipart nor urlencoded has
\* body Raw with empty text, and the two bodies are never equal.
C10_EmptyBody ==
    \A f \in EmptyBodyCases :
        (Done /\ input = EmptyBodyText(f)) =>
            /\ errs = <<>>
            /\ requests[1].body = IF f.headers.typed THEN BodyRaw(DataRaw(<<>>)) ELSE BodyNone
            /\ \A g \in EmptyBodyCases :
                   g.headers.typed # f.headers.typed =>
                       Parse(EmptyBodyText(g)).requests[1].body # requests[1].body

C10_EmptyRawBody ==
    \E f \in EmptyBodyCases :
        /\ f.headers.typed
        /\ Done /\ input = EmptyBodyText(f)
        /\ requests[1].headers # <<>>
        /\ requests[1].body = BodyRaw(DataRaw(<<>>))

\* C11: with Content-Type application/x-www-form-urlencoded the body line is
\* split on & and each piece on = into key/value pairs; a piece without = or
\* with nothing after it has an empty value; there is one pair per piece, in
\* source order (a=b&c=d&e= gives (a,b),(c,d),(e,"")).
C11_UrlEncodedPairs ==
    \A f \in UrlCases :
        (Done /\ input = UrlText(f)) =>
            /\ errs = <<>>
            /\ Len(requests) = 1
            /\ requests[1].body = BodyUrlEncoded(UrlPairs(f))
            /\ Len(requests[1].body.url_encoded_params) = Len(f)

C11_ThreePairs ==
    /\ Done
    /\ input = Chars("POST https://a.b\nContent-Type: application/x-www-form-urlencoded\n\na=b&c=d&e=\n")
    /\ Len(requests) = 1
    /\ requests[1].body.url_encoded_params
           = <<[key |-> Chars("a"), value |-> Chars("b")],
               [key |-> Chars("c"), value |-> Chars("d")],
               [key |-> Chars("e"), value |-> <<>>]>>

\* C12: in every successful Request, if the name is None then every comment
\* left in it contains an @ character, also when the request ends at a
\* separator line directly after its request line.
C12_UnnamedKeepsOnlyMetaComments ==
    \A i \in 1..Len(requests) :
        requests[i].name = None =>
            \A j \in 1..Len(requests[i].comments) :
                ContainsChar(requests[i].comments[j].value, "@")

\* a request that ended at the separator line after its request line was
\* returned without a name and with its plain comment
C12_CommentNotPromoted ==
    /\ Done
    /\ input = Chars("// c\nGET /x\n###\nGET /y\n")
    /\ Len(requests) = 2
    /\ requests[1].name = None
    /\ requests[1].comments = <<Comment(Chars("c"), "DoubleSlash")>>

\* C13: a @name line with an empty value is silently dropped: the input gives
\* the same requests and failures as the input without that line, whatever
\* directive, comment or pre-request script is on the following line.
C13_EmptyNameLineDropped ==
    \A f \in EmptyNameCases :
        (Done /\ input = WithEmptyName(f)) =>
            /\ requests = Parse(WithoutEmptyName(f)).requests
            /\ Len(errs) = Len(Parse(WithoutEmptyName(f)).errs)

\* the settings directive after the empty @name line was kept as a comment
C13_DirectiveReadAsComment ==
    /\ Done
    /\ input = Chars("# @name=\n# @no-log\nGET https://a.b\n")
    /\ Len(requests) = 1
    /\ requests[1].settings = DefaultSettings
    /\ requests[1].comments = <<Comment(Chars("@no-log"), "SingleTag")>>

\* C14: a request line of k tokens whose first token has no colon gives, for
\* k = 1, the target with method and version defaulted; for k = 2, the method
\* and the target with the version defaulted; for k = 3, method, target and
\* the version when the third token is HTTP/<digits>.<digits>, otherwise the
\* version defaulted and one InvalidHttpVersion diagnostic.
C14_TokenCountDispatch ==
    \A f \in TokenCases :
        (pc = "end_check" /\ requests = <<>> /\ errs = <<>> /\ input = TokenText(f)) =>
            /\ request_line = Some(ExpectedLine(f))
            /\ IF f.k = 3 /\ ~f.version.ok
               THEN /\ Len(parse_errs) = 1
                    /\ parse_errs[1].error = "InvalidHttpVersion"
               ELSE parse_errs = <<>>

C14_InvalidVersionDiagnosed ==
    \E f \in TokenCases :
        /\ f.k = 3 /\ ~f.version.ok /\ f.method = Chars("CUSTOM")
        /\ pc = "end_check" /\ requests = <<>> /\ input = TokenText(f)
        /\ Unwrap(request_line).method = Explicit(Chars("CUSTOM"))
        /\ Unwrap(request_line).http_version = Defaulted
        /\ Len(parse_errs) = 1

\* C15: parse_headers returns one Header per header line, in source order and
\* with duplicates kept; the key is the text before the first colon and the
\* value is the rest of the line without its leading and trailing whitespace;
\* a line that is not key:value is a fatal InvalidHeaderField carrying the line.
C15_HeadersKeyAndTrimmedValue ==
    /\ \A f \in HeaderCases :
           (Done /\ input = HeaderText(f)) =>
               /\ errs = <<>>
               /\ Len(requests) = 1
               /\ requests[1].headers = ExpectedHeaders(f)
    /\ \A line \in InvalidHeaderLines :
           (Done /\ input = InvalidHeaderText(line)) =>
               /\ requests = <<>>
               /\ Len(errs) = 1
               /\ errs[1].details = <<Diag("InvalidHeaderField", line, errs[1].details[1].start_pos, None)>>

\* a header value was returned with the whitespace that ends its line
C15_TrailingWhitespaceKept ==
    /\ Done
    /\ input = Chars("GET /x\nA: b  \n")
    /\ Len(requests) = 1
    /\ requests[1].headers = <<Header(Chars("A"), Chars("b  "))>>

\* C16: a multipart part with an empty header section, with a first header
\* other than Content-Disposition, or with a disposition type other than
\* form-data makes the request a failure record whose diagnostics contain
\* the matching kind.
C16_BadPartHeadersFail ==
    \A f \in BadPartCases :
        (Done /\ input = BadPartText(f)) =>
            /\ requests = <<>>
            /\ Len(errs) = 1
            /\ \E i \in 1..Len(errs[1].details) : errs[1].details[i].error = f.bad.error

\* the request whose part has no headers was returned as a successful
\* request, with the parts before the bad one and no diagnostic
C16_BadPartSwallowed ==
    \E f \in BadPartCases :
        /\ f.bad.lines = <<>> /\ f.before = 1
        /\ Done /\ input = BadPartText(f)
        /\ errs = <<>>
        /\ Len(requests) = 1
        /\ requests[1].body = BodyMultipart(Chars("B"), PartValues(TextKinds(1)))

\* C17: a multipart body that reaches the end of input without the end
\* boundary line --B--, after inline part text or after a part given as a
\* <path reference, is fatal: the request is a failure record with a
\* MultipartShouldBeEndedWithBoundary or MissingMultipartBoundary diagnostic,
\* never a successful Request.
C17_UnendedMultipartFails ==
    \A f \in UnendedCases :
        (Done /\ input = UnendedText(f)) =>
            /\ requests = <<>>
            /\ Len(errs) = 1
            /\ \E i \in 1..Len(errs[1].details) :
                   errs[1].details[i].error \in {"MultipartShouldBeEndedWithBoundary", "MissingMultipartBoundary"}

\* a body that ends after a <path part was returned as a successful request
C17_UnendedFilePartSucceeds ==
    \E f \in UnendedCases :
        /\ f.kinds = <<"file">>
        /\ Done /\ input = UnendedText(f)
        /\ errs = <<>>
        /\ Len(requests) = 1
        /\ requests[1].body = BodyMultipart(Chars("B"), PartValues(f.kinds))

C19_SimultaneousPlaceholderPass ==
    \A f \in PlaceholderCases :
        (Done /\ input = PlaceholderText(f)) =>
            /\ Len(requests) = 1
            /\ requests[1].request_line.target
                   = [kind |-> "Absolute", uri |-> SimultaneousPass(f.target, 1, f.sets)]

\* one set call for id: the placeholder without a set call lost its braces
C19_UnsetPlaceholderStripped ==
    /\ Done
    /\ input = Chars("< {%\nrequest.variables.set(\"id\", \"5\")\n%}\nGET https://x.y/{{id}}/{{other}}\n")
    /\ errs = <<>>
    /\ Len(requests) = 1
    /\ requests[1].request_line.target = [kind |-> "Absolute", uri |-> Chars("https://x.y/5/other")]

\* C20: a script block opened with {% that has no closing %} before the end of
\* input is fatal: the request is a failure record whose diagnostics contain
\* MissingPreRequestScriptClose for a pre-request script and
\* MissingResponseHandlerClose for a response handler.
C20_UnclosedScriptDiagnosed ==
    \A f \in UnclosedCases :
        (Done /\ input = UnclosedText(f)) =>
            /\ requests = <<>>
            /\ Len(errs) = 1
            /\ \E j \in 1..Len(errs[1].details) : errs[1].details[j].error = UnclosedError(f)

\* the unclosed pre-request script ran to the end of input and the failure
\* record carries only the missing request line
C20_PreRequestCloseErrorDiscarded ==
    /\ Done
    /\ input = Chars("< {% never closed\nGET https://a.b\n")
    /\ requests = <<>>
    /\ Len(errs) = 1
    /\ Len(errs[1].details) = 1
    /\ errs[1].details[1].error = "MissingRequestTargetLine"
    /\ errs[1].partial_request.pre_request_script = None

\* C21: when a script marker (< before the request line, > after the body) is
\* not followed by {%, the rest of that same line, trimmed, is the file-path
\* reference; when it is empty the result is a fatal diagnostic, and a later
\* line (for instance a separator line) is never taken as the path.
C21_PathFromMarkerLine ==
    \A f \in MarkerCases :
        (Done /\ input = MarkerText(f)) =>
            IF Trim(f.rest) # <<>>
            THEN /\ Len(requests) >= 1
                 /\ ScriptOf(f.script, requests[1]) = Some([kind |-> "FromFilepath", text |-> Trim(f.rest)])
            ELSE /\ errs # <<>>
                 /\ \A i \in 1..Len(requests) : ScriptOf(f.script, requests[i]) = None

\* the separator line after an empty response handler marker became the path
C21_SeparatorTakenAsPath ==
    /\ Done
    /\ input = Chars("GET https://a.b\n\n>\n###\nGET https://c.d\n")
    /\ errs = <<>>
    /\ Len(requests) = 1
    /\ requests[1].response_handler = Some([kind |-> "FromFilepath", text |-> Chars("###")])

\* C22: parse_redirect returns no redirect when the text at the cursor does not
\* start with >>; >>! followed by a path gives the overwrite variant
\* (RewriteFile) and >> followed by a path gives the create-new variant
\* (NewFileIfExists), the path being the trimmed remainder of the line; >> with
\* no consumable line after it is a fatal MissingResponseOutputPath.
C22_RedirectVariants ==
    [][pc = "redirect" =>
        LET overwrite == starts_at(input, cursor, Chars(">>!"))
            after == cursor + (IF overwrite THEN 3 ELSE 2)
        IN  IF ~starts_at(input, cursor, Chars(">>"))
            THEN /\ pc' = "finish"
                 /\ save_response' = None
            ELSE IF after >= Len(input)
            THEN /\ pc' = "resync"
                 /\ requests' = requests
                 /\ Len(errs') = Len(errs) + 1
                 /\ errs'[Len(errs')].details[Len(errs'[Len(errs')].details)].error = "MissingResponseOutputPath"
            ELSE /\ pc' = "finish"
                 /\ save_response' = Some(SaveResponse(IF overwrite THEN "RewriteFile" ELSE "NewFileIfExists",
                                                       Trim(LineAt(input, after))))]_vars

\* an overwrite redirect with a padded path was returned with the trimmed path
C22_OverwritePathTrimmed ==
    /\ Done
    /\ input = Chars("GET https://a.b\n\nbody\n\n>>!  out.txt  \n")
    /\ errs = <<>>
    /\ Len(requests) = 1
    /\ requests[1].save_response = Some(SaveResponse("RewriteFile", Chars("out.txt")))

\* C23: a raw body ends at the first separator line and never contains one: a
\* line whose first non-whitespace characters are ### (the separator may be
\* indented) is never included in the body text of the preceding request.
C23_RawBodyHasNoSeparatorLine ==
    \A i \in 1..Len(requests) :
        (requests[i].body.kind = "Raw" /\ requests[i].body.data.kind = "Raw") =>
            LET body_lines == Split(requests[i].body.data.text, "\n")
            IN  \A j \in 1..Len(body_lines) : ~IsSeparatorLine(body_lines[j])

\* the indented separator line and the request after it ended up in the body
C23_IndentedSeparatorInBody ==
    /\ Done
    /\ input = Chars("POST https://a.b\n\nbody\n  ### next\nGET https://c.d\n")
    /\ errs = <<>>
    /\ Len(requests) = 1
    /\ requests[1].body = BodyRaw(DataRaw(Chars("body\n  ### next\nGET https://c.d")))

\* C24: parsing performs no I/O: parse called with print_errors = false writes
\* nothing to the console for any input, including inputs where placeholder
\* substitution runs, and the returned requests and failures are the same for
\* print_errors = true and print_errors = false.
C24_NoConsoleOutput ==
    /\ ~print_errors => console = 0
    /\ Done =>
        LET other == RunFrom(input, ~print_errors, StartState)
        IN  requests = other.requests /\ errs = other.errs

\* with print_errors = false, the set call of the pre-request script was
\* printed when the request line was substituted
C24_SetCallPrinted ==
    /\ Done
    /\ ~print_errors
    /\ input = Chars("< {%\nrequest.variables.set(\"id\", \"5\")\n%}\nGET https://x.y/{{id}}\n")
    /\ errs = <<>>
    /\ Len(requests) = 1
    /\ console = 1

\* C25: a block that contains only comments, directives or a bare separator
\* line and reaches the end of input without a request line yields exactly one
\* failure record with a MissingRequestTargetLine diagnostic and no successful
\* Request; the partial keeps the name, comments and settings collected so far.
C25_BlockWithoutRequestLine ==
    \A f \in BlockCases :
        (Done /\ input = BlockText(f)) =>
            /\ Len(requests) = f.head.requests
            /\ Len(errs) = 1
            /\ Len(errs[1].details) = 1
            /\ errs[1].details[1].error = "MissingRequestTargetLine"
            /\ errs[1].partial_request.request_line = None
            /\ errs[1].partial_request.name = BlockName(f)
            /\ errs[1].partial_request.comments = BlockComments(f)
            /\ errs[1].partial_request.settings = BlockSettings(f)

\* a named separator, a @name directive: the partial has both, unresolved
C25_PartialKeepsNameAndComments ==
    /\ Done
    /\ input = Chars("### nm\n# @name=n\n")
    /\ requests = <<>>
    /\ Len(errs) = 1
    /\ errs[1].details[1].error = "MissingRequestTargetLine"
    /\ errs[1].partial_request.name = Some(Chars("n"))
    /\ errs[1].partial_request.comments = <<Comment(Chars("nm"), "RequestSeparator")>>

\* C26: no diagnostic is dropped at the end-of-request check: when the line
\* after the request line starts with the separator marker, a request whose
\* parse so far produced a diagnostic is reported with that diagnostic, with
\* the same success/failure outcome as the same request followed by a blank
\* line before the separator.
C26_EndCheckKeepsDiagnostics ==
    \A f \in EndCheckCases :
        (Done /\ input = DirectText(f)) =>
            LET spaced == Parse(SpacedText(f))
            IN  /\ Len(requests) = Len(spaced.requests)
                /\ Len(errs) = Len(spaced.errs)
                /\ Len(errs) >= 1
                /\ \E j \in 1..Len(errs[1].details) : errs[1].details[j].error = f.line.error

\* the request line with an invalid version was returned as a successful
\* request at the separator, while the same line before a blank line fails
C26_DiagnosticDroppedAtSeparator ==
    /\ Done
    /\ input = Chars("GET https://a.b BAD\n###\nGET https://c.d\n")
    /\ errs = <<>>
    /\ Len(requests) = 2
    /\ requests[1].request_line.http_version = Defaulted
    /\ Len(Parse(Chars("GET https://a.b BAD\n\n###\nGET https://c.d\n")).errs) = 1

\* C27: parse terminates on every finite input: every iteration of the driver
\* loop and every iteration of the directive loop of parse_request that goes
\* round again (pre-request script, meta-directive, comment) advances the
\* cursor by at least one character, and parse returns only when the cursor is
\* at the end of the input.
C27_ParseTerminates ==
    /\ <>Terminated
    /\ [](pc = "parse_loop" =>
            LET top == IterationEnd(input, print_errors, Step(input, print_errors, St))
            IN  top.pc = "parse_loop" => top.cursor > cursor)
    /\ [](pc = "directives" =>
            LET again == directive_loop(input, St)
            IN  again.pc = "directives" => again.cursor > cursor)
    /\ [](Done => cursor = Len(input))

\* the driver loop went round three times and parse returned at the end of
\* the input
C27_ThreeIterations ==
    /\ Done
    /\ input = Chars("GET https://a.b BAD\n###\n# @name=n\n// c\n< pre.js\nGET https://c.d\n\n###\n")
    /\ cursor = Len(input)
    /\ Len(requests) = 2
    /\ Len(errs) = 1

\* C28: every failure record returned by parse_request carries at least one
\* diagnostic, and every successful Request has a request line: after the
\* request line stage, a missing request line always comes with a diagnostic,
\* which forces the failure return before the request line is unwrapped.
C28_FailureHasDiagnostic ==
    /\ \A i \in 1..Len(errs) : errs[i].details # <<>>
    /\ \A i \in 1..Len(requests) :
           DOMAIN requests[i].request_line = {"method", "target", "http_version"}
    /\ (pc \in {"end_check", "headers", "body", "response_handler", "redirect", "finish"}
            /\ request_line = None) => parse_errs # <<>>

\* a block that starts with a header line went through every stage without a
\* request line and was returned as a failure record
C28_MissingLineForcedFailure ==
    /\ Done
    /\ input = Chars("Content-Type: a\n\nbody\n")
    /\ requests = <<>>
    /\ Len(errs) = 1
    /\ errs[1].partial_request.request_line = None
    /\ errs[1].partial_request.body # None
    /\ errs[1].details[1].error = "MissingRequestTargetLine"

\* C29: for every diagnostic produced by parse, the start offset and the end
\* offset (when present) lie between 0 and the length of the input, and
\* start <= end; in particular for the InvalidHttpVersion diagnostic of a
\* three-token request line at the end of the input.
C29_OffsetsWithinInput ==
    \A i \in 1..Len(errs) : \A j \in 1..Len(errs[i].details) :
        LET d == errs[i].details[j]
        IN  /\ IsSome(d.start_pos) => Unwrap(d.start_pos) \in 0..Len(input)
            /\ IsSome(d.end_pos) => Unwrap(d.end_pos) \in 0..Len(input)
            /\ (IsSome(d.start_pos) /\ IsSome(d.end_pos)) => Unwrap(d.start_pos) <= Unwrap(d.end_pos)

\* the request line with an invalid version is the last line of the input and
\* the end offset of its diagnostic is three past the end of the input
C29_EndOffsetPastInput ==
    /\ Done
    /\ input = Chars("GET /x HTTP/9\n")
    /\ Len(errs) = 1
    /\ errs[1].details[1].error = "InvalidHttpVersion"
    /\ errs[1].details[1].start_pos = Some(Len(input))
    /\ errs[1].details[1].end_pos = Some(Len(input) + 3)

\* C30: multipart part collection stops at the first end-boundary line --B--:
\* that line is consumed in full, and no text following it (even text shaped
\* like part headers and content) is ever parsed as a further part of the
\* same body.
C30_NoPartAfterEndBoundary ==
    \A f \in AfterEndCases :
        (Done /\ input = AfterEndText(f)) =>
            \A i \in 1..Len(requests) :
                requests[i].body.kind = "Multipart" =>
                    requests[i].body.parts = PartValues(f.kinds)

\* the text after the end boundary line was returned as a second part
C30_PartAfterEndBoundary ==
    /\ Done
    /\ input = MultipartText(TRUE, Chars("B"), Parts(<<"text">>), ExtraPart(Chars("B"), Chars("x\n"), TRUE))
    /\ errs = <<>>
    /\ Len(requests) = 1
    /\ Len(requests[1].body.parts) = 2
    /\ requests[1].body.parts[2]
           = Multipart(DispositionField(Chars("extra"), None, None), <<>>, DataRaw(Chars("x")))
====
